---- MODULE Spec2Model ----
(***************************************************************************)
(* State-machine model of the verifi certificate store                     *)
(* (internal/certstore): the on-disk store, the advisory file lock, the    *)
(* locked read-modify-write of metadata.json, and the store operations     *)
(* Init, AddCert, RemoveCert, ResetMozillaBundle and UpdateMetadata, each  *)
(* split at its file-system calls so that several processes interleave.    *)
(*                                                                         *)
(* Abstractions: file contents are symbolic (a certificate file holds a    *)
(* certificate id, a bundle is the sequence of the certificates in it);    *)
(* SHA-256 is an injective tagging of the content; timestamps are left     *)
(* out.                                                                    *)
(***************************************************************************)
EXTENDS Integers, Sequences, FiniteSets, TLC

\* ------------------------------------------------------------------ bounds
NProcs == 3          \* number of processes
MaxCalls == 1        \* operations a process may start
MaxFaults == 2       \* I/O errors and cancellations in one behaviour
MaxKills == 1        \* processes killed in one behaviour

Procs == 1..NProcs
StoreProcs == {1, 2} \* the processes that run certificate operations
NameSeq == <<"a", "b">> \* certificate names, in directory-listing order
Names == {NameSeq[i] : i \in 1..Len(NameSeq)}
CertOf == <<"c1", "c2">> \* the certificate file each of them adds
Certs == {CertOf[p] : p \in StoreProcs}

\* names a caller may pass that AddCert must refuse, and the characters of
\* every name
BadNames == {"d/x", "d\\x", "..", "x..y"}
NameChars ==
  ("a" :> <<"a">>) @@ ("b" :> <<"b">>) @@
  ("d/x" :> <<"d", "/", "x">>) @@ ("d\\x" :> <<"d", "\\", "x">>) @@
  (".." :> <<".", ".">>) @@ ("x..y" :> <<"x", ".", ".", "y">>)

\* the paths userCertPath can give for these names
FileNames == Names \cup BadNames

\* a directory somebody made inside certs/user, sub.pem, by its name without
\* the suffix, and every name an entry of certs/user can have
SubDir == "sub"
UserDirNames == FileNames \cup {SubDir}

\* strings.Contains
Contains(str, sub) ==
  \E i \in 1..(Len(str) - Len(sub) + 1) : SubSeq(str, i, i + Len(sub) - 1) = sub

\* a check that lets every name through
ValidNameAny(n) == n \in DOMAIN NameChars

\* AddCert's name check: no "/", no "\\", no ".."
ValidName(n) ==
  ~ \/ Contains(NameChars[n], <<"/">>)
    \/ Contains(NameChars[n], <<"\\">>)
    \/ Contains(NameChars[n], <<".", ".">>)

\* what a certificate file given to AddCert holds: whether it decodes as a PEM
\* block, the first block's type, whether that block parses as X.509, whether
\* its NotAfter is in the past, and how many certificate blocks the file has
\* (pem.Decode hands back the first block and the rest, and ValidateCert
\* drops the rest)
GoodCert ==
  [pem |-> TRUE, type |-> "CERTIFICATE", x509 |-> TRUE, expired |-> FALSE, blocks |-> 1]
CertFile ==
  [c1 |-> GoodCert,
   c2 |-> GoodCert,
   old |-> [GoodCert EXCEPT !.expired = TRUE],
   junk |-> [GoodCert EXCEPT !.pem = FALSE, !.blocks = 0],
   key |-> [GoodCert EXCEPT !.type = "PRIVATE KEY", !.blocks = 0],
   chain |-> [GoodCert EXCEPT !.blocks = 2]]

\* a validation that never looks at the expiry
ValidateCertLax(c, force) ==
  IF ~CertFile[c].pem THEN "invalid pem"
  ELSE IF CertFile[c].type # "CERTIFICATE" THEN "invalid block type"
  ELSE IF ~CertFile[c].x509 THEN "invalid x509"
  ELSE "ok"

\* ValidateCert: the error it returns, "ok" when it returns the certificate
ValidateCert(c, force) ==
  IF ~CertFile[c].pem THEN "invalid pem"
  ELSE IF CertFile[c].type # "CERTIFICATE" THEN "invalid block type"
  ELSE IF ~CertFile[c].x509 THEN "invalid x509"
  ELSE IF ~force /\ CertFile[c].expired THEN "expired"
  ELSE "ok"

\* ------------------------------------------------------------ file contents
NoBundle == [st |-> "none", data |-> <<>>]
NoCert == [st |-> "none", data |-> ""]

NullInfo == [sha |-> <<>>, count |-> 0, sources |-> <<>>, source |-> "", version |-> ""]
NullMd == [ver |-> "", userCerts |-> <<>>, combined |-> NullInfo, mozilla |-> NullInfo]
NoMeta == [st |-> "none", data |-> NullMd]

Full(d) == [st |-> "full", data |-> d]

\* what an interrupted or failed os.WriteFile leaves behind: a truncated file.
\* A truncated bundle keeps the certificates before the cut, a truncated
\* certificate or metadata file holds nothing that parses.
PartialMeta == [st |-> "partial", data |-> NullMd]
PartialCert == [st |-> "partial", data |-> ""]
Directory == [st |-> "dir", data |-> ""]
PartialBundle(d) == [st |-> "partial", data |-> IF d = <<>> THEN d ELSE SubSeq(d, 1, Len(d) - 1)]

Exists(f) == f.st # "none"

\* fetcher.GetEmbeddedBundle: the bundle compiled into the binary
EmbeddedBundle == <<"m1", "m2">>

\* fetcher.ComputeSHA256: an injective digest of the bytes
ComputeSHA256(data) == <<"sha256">> \o data

\* the certificate blocks in one file's bytes: none in a truncated certificate
\* file, one in each certificate of the embedded bundle
Blocks(x) ==
  IF x = "" THEN 0
  ELSE IF x \in DOMAIN CertFile THEN CertFile[x].blocks
  ELSE 1

\* fetcher.CountCertificates: pem.Decode in a loop over the bytes, counting
\* the blocks that parse as a certificate
RECURSIVE CountCertificates(_)
CountCertificates(data) ==
  IF data = <<>> THEN 0
  ELSE Blocks(Head(data)) + CountCertificates(Tail(data))

currentSchemaVersion == "1"

NewMetadata == [NullMd EXCEPT !.ver = currentSchemaVersion]

\* ValidateCert: the fingerprint is a pure function of the certificate
Fingerprint(c) == "sha256:" \o c

\* an entry of user_certs; Added (time.Now()) is the instant of the call, which
\* no other call shares
UserCertInfo(n, c, t) == [name |-> n, path |-> n, added |-> t, fp |-> Fingerprint(c)]

\* --------------------------------------------------------------- variables
VARIABLES
  dirs,       \* the directory layout exists
  meta,       \* certs/metadata.json
  metaTmp,    \* certs/metadata.json.tmp
  moz,        \* certs/bundles/mozilla-ca-bundle.pem
  mozTmp,     \* certs/bundles/mozilla-ca-bundle.pem.tmp
  comb,       \* certs/bundles/combined-bundle.pem
  combTmp,    \* certs/bundles/combined-bundle.pem.tmp
  userFile,   \* certs/user/<name>.pem
  userTmp,    \* certs/user/<name>.pem.tmp
  lockIno,    \* inode of certs/metadata.json.lock, 0 when the file is absent
  held,       \* held[p]: inode p holds an exclusive flock on, 0 when none
  pc,         \* position of each process
  op,         \* the operation a process runs and its arguments
  phase,      \* which UpdateMetadata call of the operation is running
  md,         \* the *Metadata the process works on
  loc,        \* locals of RebuildBundle
  uerr,       \* error UpdateMetadata is about to return
  ctx,        \* state of the caller's context
  result,     \* what the last operation of the process returned
  calls,      \* operations started by each process
  faults,     \* I/O errors injected so far
  kills,      \* processes killed so far
  hist        \* history of the run, used to state the properties

vars == <<dirs, meta, metaTmp, moz, mozTmp, comb, combTmp, userFile, userTmp,
          lockIno, held, pc, op, phase, md, loc, uerr, ctx, result, calls,
          faults, kills, hist>>

fsVars == <<dirs, meta, metaTmp, moz, mozTmp, comb, combTmp, userFile, userTmp>>

NoOp == [kind |-> "none", name |-> "", cert |-> "", force |-> FALSE]
NoLoc == [mozData |-> <<>>, entries |-> <<>>, certData |-> <<>>]
NoResult == [op |-> "", err |-> "none"]
Ok == [op |-> "", err |-> "ok"]
Err(o, e) == [op |-> o, err |-> e]

procVars == <<pc, op, phase, md, loc, uerr, ctx, result, calls>>
lockVars == <<lockIno, held>>
envVars == <<faults, kills>>

\* what the store holds for its users: certificate files, record, bundle
Disk == [userFile |-> userFile, meta |-> meta, comb |-> comb]
NoDisk == [userFile |-> [n \in UserDirNames |-> NoCert], meta |-> NoMeta, comb |-> NoBundle]

NoHist ==
  [succ |-> 0,                              \* successful incrementing updates
   updFailed |-> [p \in Procs |-> FALSE],   \* AddCert's first update failed
   committed |-> [p \in Procs |-> FALSE],   \* AddCert's first update was saved
   rebuilt |-> [p \in Procs |-> FALSE],     \* AddCert's rebuild replaced the bundle
   alone |-> [p \in Procs |-> FALSE],       \* no other call ran since this one began
   lastUpsert |-> 0,                        \* last AddCert to take the lock for its catalog update
   f0 |-> [p \in Procs |-> 0],              \* I/O errors and cancellations so far when Init was called
   snap |-> [p \in Procs |-> NoDisk]]       \* the disk when AddCert was called

\* a block that always lists both source tags
CombinedInfoBoth(combined, userCerts) ==
  [NullInfo EXCEPT !.sha = ComputeSHA256(combined),
                   !.count = CountCertificates(combined),
                   !.sources = <<"mozilla", "user">>]


\* ------------------------------------------------------------ initial states
\* combined_bundle block RebuildBundle records for the bytes it wrote
CombinedInfo(combined, userCerts) ==
  [NullInfo EXCEPT !.sha = ComputeSHA256(combined),
                   !.count = CountCertificates(combined),
                   !.sources = IF Len(userCerts) > 0
                                 THEN <<"mozilla", "user">> ELSE <<"mozilla">>]

\* mozilla_bundle block Init and ResetMozillaBundle record
EmbeddedInfo ==
  [NullInfo EXCEPT !.sha = ComputeSHA256(EmbeddedBundle),
                   !.count = CountCertificates(EmbeddedBundle),
                   !.source = "embedded"]

ProcInit ==
  /\ lockIno = 0
  /\ held = [p \in Procs |-> 0]
  /\ pc = [p \in Procs |-> "idle"]
  /\ op = [p \in Procs |-> NoOp]
  /\ phase = [p \in Procs |-> 0]
  /\ md = [p \in Procs |-> NullMd]
  /\ loc = [p \in Procs |-> NoLoc]
  /\ uerr = [p \in Procs |-> "ok"]
  /\ ctx = [p \in Procs |-> "live"]
  /\ result = [p \in Procs |-> NoResult]
  /\ calls = [p \in Procs |-> 0]
  /\ faults = 0
  /\ kills = 0
  /\ hist = NoHist

\* NewStore on an empty store root: nothing exists yet
InitEmpty ==
  /\ dirs = FALSE
  /\ meta = NoMeta /\ metaTmp = NoMeta
  /\ moz = NoBundle /\ mozTmp = NoBundle
  /\ comb = NoBundle /\ combTmp = NoBundle
  /\ userFile = [n \in UserDirNames |-> NoCert]
  /\ userTmp = [n \in UserDirNames |-> NoCert]
  /\ ProcInit

\* a bundle downloaded by 'verifi bundle update', its URL and its date line
DownloadedBundle == <<"d1", "d2", "d3">>
DownloadedInfo ==
  [NullInfo EXCEPT !.sha = ComputeSHA256(DownloadedBundle),
                   !.count = CountCertificates(DownloadedBundle),
                   !.source = "url",
                   !.version = "date"]

\* the record of a store with the downloaded bundle and one user certificate
UpdatedMd ==
  [NewMetadata EXCEPT
     !.userCerts = <<UserCertInfo(NameSeq[1], CertOf[1], <<0, 0>>)>>,
     !.mozilla = DownloadedInfo,
     !.combined = CombinedInfo(DownloadedBundle \o <<CertOf[1]>>, <<CertOf[1]>>)]

\* the store after Init, AddCert of one certificate and a bundle update
InitUpdated ==
  /\ dirs = TRUE
  /\ meta = Full(UpdatedMd)
  /\ metaTmp = NoMeta
  /\ moz = Full(DownloadedBundle) /\ mozTmp = NoBundle
  /\ comb = Full(DownloadedBundle \o <<CertOf[1]>>) /\ combTmp = NoBundle
  /\ userFile = [n \in UserDirNames |-> IF n = NameSeq[1] THEN Full(CertOf[1]) ELSE NoCert]
  /\ userTmp = [n \in UserDirNames |-> NoCert]
  /\ ProcInit


\* the store as one successful Init on an empty root leaves it
InitStore ==
  /\ dirs = TRUE
  /\ meta = Full([NewMetadata EXCEPT !.mozilla = EmbeddedInfo,
                                     !.combined = CombinedInfo(EmbeddedBundle, <<>>)])
  /\ metaTmp = NoMeta
  /\ moz = Full(EmbeddedBundle) /\ mozTmp = NoBundle
  /\ comb = Full(EmbeddedBundle) /\ combTmp = NoBundle
  /\ userFile = [n \in UserDirNames |-> NoCert]
  /\ userTmp = [n \in UserDirNames |-> NoCert]
  /\ ProcInit

\* ------------------------------------------------------- process bookkeeping
\* a step that stays inside the operation
Step(p, l, m, lo, ue) ==
  /\ pc' = [pc EXCEPT ![p] = l]
  /\ md' = [md EXCEPT ![p] = m]
  /\ loc' = [loc EXCEPT ![p] = lo]
  /\ uerr' = [uerr EXCEPT ![p] = ue]
  /\ UNCHANGED <<op, phase, ctx, result, calls>>

Goto(p, l) == Step(p, l, md[p], loc[p], uerr[p])

HistReturn(p, r) ==
  [hist EXCEPT !.succ = IF op[p].kind = "incr" /\ r.err = "ok" THEN @ + 1 ELSE @]

\* the operation returns r to its caller
Return(p, r) ==
  /\ pc' = [pc EXCEPT ![p] = "idle"]
  /\ result' = [result EXCEPT ![p] = r]
  /\ md' = [md EXCEPT ![p] = NullMd]
  /\ loc' = [loc EXCEPT ![p] = NoLoc]
  /\ uerr' = [uerr EXCEPT ![p] = "ok"]
  /\ phase' = [phase EXCEPT ![p] = 0]
  /\ ctx' = [ctx EXCEPT ![p] = "live"]
  /\ hist' = HistReturn(p, r)
  /\ UNCHANGED <<op, calls>>

HistBegin(p, o) ==
  [hist EXCEPT !.updFailed[p] = FALSE,
               !.committed[p] = FALSE,
               !.rebuilt[p] = FALSE,
               !.alone = [q \in Procs |->
                            q = p /\ \A r \in Procs \ {p} : pc[r] = "idle"],
               !.f0[p] = IF o.kind = "init" THEN faults ELSE 0,
               !.snap[p] = IF o.kind = "add" THEN Disk ELSE NoDisk]

\* an operation begins: the call is counted and gets a fresh context
Begin(p, o, l, ph) ==
  /\ pc[p] = "idle"
  /\ hist' = HistBegin(p, o)
  /\ calls[p] < MaxCalls
  /\ calls' = [calls EXCEPT ![p] = @ + 1]
  /\ op' = [op EXCEPT ![p] = o]
  /\ pc' = [pc EXCEPT ![p] = l]
  /\ phase' = [phase EXCEPT ![p] = ph]
  /\ result' = [result EXCEPT ![p] = NoResult]
  /\ UNCHANGED <<md, loc, uerr, ctx>>

Fault == faults < MaxFaults /\ faults' = faults + 1
NoFault == faults' = faults

\* the positions whose next step looks at the caller's context
CtxChecks == {"add_begin", "rm_begin", "init_begin", "reset_begin", "lock",
              "lockwait", "rb_readmoz", "rb_readdir", "rb_readfile"}

\* the caller's context is cancelled, or its deadline passes, while the call
\* runs; it is noticed at the next check (a cancellation at any other moment
\* is indistinguishable from one just before the check that sees it)
Cancel(p) ==
  /\ pc[p] \in CtxChecks
  /\ ctx[p] = "live"
  /\ Fault
  /\ \E c \in {"cancelled", "deadline"} : ctx' = [ctx EXCEPT ![p] = c]
  /\ UNCHANGED <<fsVars, lockVars, kills, hist>>
  /\ UNCHANGED <<pc, op, phase, md, loc, uerr, result, calls>>

\* --------------------------------------------------------------- FileLock
\* a flock that never refuses
FreeAlways(ino) == ino = ino

\* flock(2): an exclusive lock on an inode is free when no open file holds it
Free(ino) == \A q \in Procs : held[q] # ino

\* inode a newly created lock file gets: one no open file refers to
FreshIno == CHOOSE i \in 1..(NProcs + 1) : Free(i)

\* a step that moves the operation to its next UpdateMetadata call or to its
\* rollback, dropping the locals of the call that just returned
StepPh(p, l, ph, ue) ==
  /\ pc' = [pc EXCEPT ![p] = l]
  /\ phase' = [phase EXCEPT ![p] = ph]
  /\ uerr' = [uerr EXCEPT ![p] = ue]
  /\ md' = [md EXCEPT ![p] = NullMd]
  /\ loc' = [loc EXCEPT ![p] = NoLoc]
  /\ hist' = IF l = "add_rollback" THEN [hist EXCEPT !.updFailed[p] = TRUE] ELSE hist
  /\ UNCHANGED <<op, ctx, result, calls>>

\* what UpdateMetadata's caller does with the error it returns
UpdReturn(p, e) ==
  CASE op[p].kind = "incr" ->
         Return(p, IF e = "ok" THEN Ok ELSE Err("", e))
    [] op[p].kind = "add" /\ phase[p] = 1 ->
         IF e = "ok" THEN StepPh(p, "lock", 2, "ok")
                     ELSE StepPh(p, "add_rollback", 1, e)
    [] op[p].kind = "add" /\ phase[p] = 2 ->
         Return(p, IF e = "ok" THEN Ok
                   ELSE Err("rebuild bundle after adding certificate", e))
    [] op[p].kind = "remove" /\ phase[p] = 1 ->
         IF e = "ok" THEN StepPh(p, "rm_file", 1, "ok")
                     ELSE Return(p, Err("", e))
    [] op[p].kind = "remove" /\ phase[p] = 2 ->
         Return(p, IF e = "ok" THEN Ok
                   ELSE Err("rebuild bundle after removing certificate", e))
    [] op[p].kind \in {"reset", "rebuild"} ->
         Return(p, IF e = "ok" THEN Ok ELSE Err("", e))
    [] OTHER -> FALSE

\* the history once p has obtained the lock
HistLock(p) ==
  IF op[p].kind = "add" /\ phase[p] = 1 THEN [hist EXCEPT !.lastUpsert = p] ELSE hist

\* a Lock that reports one error whatever ended the wait
LockErrSame(p) == "lock timeout"

\* the error Lock wraps: ctx.Err() is DeadlineExceeded or Canceled
LockErr(p) == IF ctx[p] = "deadline" THEN "lock deadline" ELSE "lock cancelled"

\* a first attempt that takes the lock without asking flock
LockFirstBlind(p) ==
  /\ pc[p] = "lock"
  /\ ctx[p] = "live"
  /\ lockIno' = IF lockIno = 0 THEN FreshIno ELSE lockIno
  /\ held' = [held EXCEPT ![p] = lockIno']
  /\ Goto(p, "u_read")
  /\ hist' = HistLock(p)
  /\ UNCHANGED <<fsVars, envVars>>

\* FileLock.Lock, first attempt: TryLockContext fails at once on a done
\* context, otherwise opens (creating) the lock file and tries flock on it
LockFirst(p) ==
  /\ pc[p] = "lock"
  /\ UNCHANGED <<fsVars, envVars>>
  /\ IF ctx[p] # "live"
       THEN /\ UpdReturn(p, LockErr(p))
            /\ UNCHANGED lockVars
       ELSE LET ino == IF lockIno = 0 THEN FreshIno ELSE lockIno IN
            /\ lockIno' = ino
            /\ IF Free(ino)
                 THEN /\ held' = [held EXCEPT ![p] = ino]
                      /\ Goto(p, "u_read")
                      /\ hist' = HistLock(p)
                 ELSE /\ UNCHANGED held
                      /\ Goto(p, "lockwait")
                      /\ UNCHANGED hist

\* a poll that takes the lock without asking flock
LockRetryBlind(p) ==
  /\ pc[p] = "lockwait"
  /\ lockIno # 0
  /\ held' = [held EXCEPT ![p] = lockIno]
  /\ Goto(p, "u_read")
  /\ hist' = HistLock(p)
  /\ UNCHANGED <<fsVars, lockIno, envVars>>

\* FileLock.Lock, a later poll (every 100ms) that finds the lock free
LockRetry(p) ==
  /\ pc[p] = "lockwait"
  /\ LET ino == IF lockIno = 0 THEN FreshIno ELSE lockIno IN
     /\ Free(ino)
     /\ lockIno' = ino
     /\ held' = [held EXCEPT ![p] = ino]
  /\ Goto(p, "u_read")
  /\ hist' = HistLock(p)
  /\ UNCHANGED <<fsVars, envVars>>

\* a wait that goes on after the context is done
LockGiveUpStay(p) ==
  /\ pc[p] = "lockwait"
  /\ ctx[p] # "live"
  /\ UNCHANGED vars

\* FileLock.Lock gives up: the context is done while it waits between polls
LockGiveUp(p) ==
  /\ pc[p] = "lockwait"
  /\ ctx[p] # "live"
  /\ UpdReturn(p, LockErr(p))
  /\ UNCHANGED <<fsVars, lockVars, envVars>>

\* ----------------------------------------------------------- UpdateMetadata
\* the function passed to UpdateMetadata by the running operation
FnOf(p) ==
  CASE op[p].kind = "incr" -> "incr"
    [] op[p].kind = "add" -> IF phase[p] = 1 THEN "upsert" ELSE "rebuild"
    [] op[p].kind = "remove" -> IF phase[p] = 1 THEN "remove" ELSE "rebuild"
    [] op[p].kind = "reset" -> "reset"
    [] op[p].kind = "rebuild" -> "rebuild"
    [] OTHER -> "none"

\* a lookup that finds every name
HasNameAlways(m, n) == TRUE

\* the search of user_certs for a name, as RemoveCert's mutator and
\* GetCertInfo loop over it
HasName(m, n) == \E i \in 1..Len(m.userCerts) : m.userCerts[i].name = n

\* a mutator that appends without looking for the name
UpsertAppend(m, n, c, t) == [m EXCEPT !.userCerts = Append(@, UserCertInfo(n, c, t))]

\* a mutator that leaves an entry of that name as it is
UpsertKeep(m, n, c, t) ==
  IF HasName(m, n) THEN m
  ELSE [m EXCEPT !.userCerts = Append(@, UserCertInfo(n, c, t))]

\* AddCert's mutator: replace the entry of that name, else append one
Upsert(m, n, c, t) ==
  LET hits == {j \in 1..Len(m.userCerts) : m.userCerts[j].name = n} IN
  IF hits # {}
    THEN LET i == CHOOSE j \in hits : \A k \in hits : j <= k
         IN [m EXCEPT !.userCerts[i] = UserCertInfo(n, c, t)]
    ELSE [m EXCEPT !.userCerts = Append(@, UserCertInfo(n, c, t))]

\* RemoveCert's mutator: drop every entry of that name
RemoveEntry(m, n) ==
  LET keep(e) == e.name # n IN [m EXCEPT !.userCerts = SelectSeq(@, keep)]

\* the mutator of TestUpdateMetadata_ConcurrentAccess
Incr(m) == [m EXCEPT !.mozilla.count = @ + 1]

\* UpdateMetadata after Lock: readMetadata, then the mutator up to its first
\* file-system call
ReadMeta(p) ==
  /\ pc[p] = "u_read"
  /\ UNCHANGED <<fsVars, lockVars, kills, hist>>
  /\ \/ /\ meta.st = "none"
        /\ NoFault
        /\ Step(p, "unlock", md[p], loc[p], "read metadata")
     \/ /\ meta.st = "partial"
        /\ NoFault
        /\ Step(p, "unlock", md[p], loc[p], "parse metadata")
     \/ /\ meta.st = "full"
        /\ Fault
        /\ Step(p, "unlock", md[p], loc[p], "read metadata")
     \/ /\ meta.st = "full"
        /\ NoFault
        /\ LET m == meta.data IN
           CASE FnOf(p) = "incr" -> Step(p, "u_write", Incr(m), loc[p], "ok")
             [] FnOf(p) = "upsert" ->
                  Step(p, "u_write", Upsert(m, op[p].name, op[p].cert, <<p, calls[p]>>), loc[p], "ok")
             [] FnOf(p) = "remove" ->
                  IF HasName(m, op[p].name)
                    THEN Step(p, "u_write", RemoveEntry(m, op[p].name), loc[p], "ok")
                    ELSE Step(p, "unlock", m, loc[p], "not found")
             [] FnOf(p) = "rebuild" -> Step(p, "rb_readmoz", m, loc[p], "ok")
             [] FnOf(p) = "reset" ->
                  Step(p, "rb_readmoz", [m EXCEPT !.mozilla = EmbeddedInfo], loc[p], "ok")
             [] OTHER -> FALSE

\* how writeMetadata's result continues: Init returns it, UpdateMetadata
\* runs its deferred Unlock first
SaveDone(p, e) ==
  IF op[p].kind = "init"
    THEN Return(p, IF e = "ok" THEN Ok ELSE Err("", e))
    ELSE /\ Step(p, "unlock", md[p], loc[p], e)
         /\ hist' = IF e = "ok" /\ FnOf(p) = "upsert"
                       THEN [hist EXCEPT !.committed[p] = TRUE] ELSE hist

\* a save that writes metadata.json in place instead of the temp file
WriteMetaInPlace(p) ==
  /\ pc[p] = "u_write"
  /\ meta' = Full(md[p])
  /\ Goto(p, "u_rename")
  /\ UNCHANGED <<dirs, metaTmp, moz, mozTmp, comb, combTmp, userFile, userTmp>>
  /\ UNCHANGED <<lockVars, envVars, hist>>

\* writeMetadata: marshal, WriteFile(metadata.json.tmp)
WriteMetaTmp(p) ==
  /\ pc[p] = "u_write"
  /\ UNCHANGED <<dirs, meta, moz, mozTmp, comb, combTmp, userFile, userTmp>>
  /\ UNCHANGED <<lockVars, kills>>
  /\ \/ /\ NoFault
        /\ metaTmp' = Full(md[p])
        /\ Goto(p, "u_rename")
        /\ UNCHANGED hist
     \/ /\ Fault
        /\ metaTmp' = PartialMeta
        /\ SaveDone(p, "write temp metadata")

\* writeMetadata: Rename(metadata.json.tmp, metadata.json), Remove on failure
RenameMeta(p) ==
  /\ pc[p] = "u_rename"
  /\ UNCHANGED <<dirs, moz, mozTmp, comb, combTmp, userFile, userTmp>>
  /\ UNCHANGED <<lockVars, kills>>
  /\ \/ /\ Exists(metaTmp)
        /\ NoFault
        /\ meta' = metaTmp
        /\ metaTmp' = NoMeta
        /\ SaveDone(p, "ok")
     \/ /\ \/ ~Exists(metaTmp) /\ NoFault
           \/ Exists(metaTmp) /\ Fault
        /\ meta' = meta
        /\ metaTmp' = NoMeta
        /\ SaveDone(p, "rename metadata")

\* a return that leaves the flock in place
UnlockKeep(p) ==
  /\ pc[p] = "unlock"
  /\ UpdReturn(p, uerr[p])
  /\ UNCHANGED <<fsVars, lockVars, envVars>>

\* UpdateMetadata's deferred lock.Unlock(), then its return
Unlock(p) ==
  /\ pc[p] = "unlock"
  /\ held' = [held EXCEPT ![p] = 0]
  /\ UpdReturn(p, uerr[p])
  /\ UNCHANGED <<fsVars, lockIno, envVars>>

\* ------------------------------------------------------------ RebuildBundle
\* an UpdateMetadata that saves the record although its mutator failed
RbFailSave(p, e) ==
  IF op[p].kind = "init"
    THEN Return(p, Err("", e))
    ELSE Step(p, "u_write", md[p], loc[p], e) /\ UNCHANGED hist

\* how an error of RebuildBundle continues: Init returns it, UpdateMetadata
\* returns it without saving, after its deferred Unlock
RbFail(p, e) ==
  IF op[p].kind = "init"
    THEN Return(p, Err("", e))
    ELSE Step(p, "unlock", md[p], loc[p], e) /\ UNCHANGED hist

\* a RebuildBundle that starts with ReadFile, without looking at the context
RbReadMozNoCtx(p) ==
  /\ pc[p] = "rb_readmoz"
  /\ UNCHANGED <<fsVars, lockVars, kills>>
  /\ \/ /\ \/ ~Exists(moz) /\ NoFault
           \/ Exists(moz) /\ Fault
        /\ RbFail(p, "read mozilla bundle")
     \/ /\ Exists(moz)
        /\ NoFault
        /\ Step(p, "rb_readdir", md[p], [loc[p] EXCEPT !.mozData = moz.data], uerr[p])
        /\ UNCHANGED hist


\* RebuildBundle: context check, ReadFile(mozilla bundle)
RbReadMoz(p) ==
  /\ pc[p] = "rb_readmoz"
  /\ UNCHANGED <<fsVars, lockVars, kills>>
  /\ \/ /\ ctx[p] # "live"
        /\ NoFault
        /\ RbFail(p, "ctx")
     \/ /\ ctx[p] = "live"
        /\ \/ ~Exists(moz) /\ NoFault
           \/ Exists(moz) /\ Fault
        /\ RbFail(p, "read mozilla bundle")
     \/ /\ ctx[p] = "live"
        /\ Exists(moz)
        /\ NoFault
        /\ Step(p, "rb_readdir", md[p], [loc[p] EXCEPT !.mozData = moz.data], uerr[p])
        /\ UNCHANGED hist

\* every file name certs/user can hold, in the sorted order os.ReadDir lists
\* them: <name>.pem, then AddCert's temp file <name>.pem.tmp, name by name
DirSlots ==
  LET order == NameSeq \o <<SubDir>> IN
  [i \in 1..(2 * Len(order)) |->
     IF i % 2 = 1 THEN <<order[(i + 1) \div 2], ".pem">>
                  ELSE <<order[i \div 2], ".pem", ".tmp">>]

\* the file or directory a file name of certs/user stands for
FileAt(e) == IF Len(e) = 3 THEN userTmp[e[1]] ELSE userFile[e[1]]

\* fs.ReadDir(certs/user): the entries that exist
ReadDir == SelectSeq(DirSlots, LAMBDA e : Exists(FileAt(e)))

\* entry.IsDir() and strings.HasSuffix(entry.Name(), suffix)
IsDir(e) == FileAt(e).st = "dir"
HasSuffix(e, suffix) == e[Len(e)] = suffix

\* a loop that skips the directories only
PemEntriesAnyName == SelectSeq(ReadDir, LAMBDA e : ~IsDir(e))

\* the entries the loop of readUserCerts reads: not a directory, and a name
\* that ends in .pem
PemEntries == SelectSeq(ReadDir, LAMBDA e : ~IsDir(e) /\ HasSuffix(e, ".pem"))

\* readUserCerts: context check, ReadDir(certs/user)
RbReadDir(p) ==
  /\ pc[p] = "rb_readdir"
  /\ UNCHANGED <<fsVars, lockVars, kills>>
  /\ \/ /\ ctx[p] # "live"
        /\ NoFault
        /\ RbFail(p, "ctx")
     \/ /\ ctx[p] = "live"
        /\ \/ ~dirs /\ NoFault
           \/ dirs /\ Fault
        /\ RbFail(p, "read user certs directory")
     \/ /\ ctx[p] = "live"
        /\ dirs
        /\ NoFault
        /\ Step(p, IF PemEntries = <<>> THEN "rb_write" ELSE "rb_readfile",
                md[p], [loc[p] EXCEPT !.entries = PemEntries], uerr[p])
        /\ UNCHANGED hist

\* readUserCerts: one turn of the loop over the entries, ReadFile(entry)
RbReadFile(p) ==
  /\ pc[p] = "rb_readfile"
  /\ UNCHANGED <<fsVars, lockVars, kills>>
  /\ LET e == Head(loc[p].entries)
         readable == Exists(FileAt(e)) /\ ~IsDir(e)
     IN
     \/ /\ ctx[p] # "live"
        /\ NoFault
        /\ RbFail(p, "ctx")
     \/ /\ ctx[p] = "live"
        /\ \/ ~readable /\ NoFault
           \/ readable /\ Fault
        /\ RbFail(p, "read user certificate")
     \/ /\ ctx[p] = "live"
        /\ readable
        /\ NoFault
        /\ Step(p, IF Tail(loc[p].entries) = <<>> THEN "rb_write" ELSE "rb_readfile",
                md[p],
                [loc[p] EXCEPT !.entries = Tail(@),
                               !.certData = Append(@, FileAt(e).data)],
                uerr[p])
        /\ UNCHANGED hist

\* a rebuild that appends the user certificates to the bundle on disk
CombinedOnto(p) == comb.data \o loc[p].certData

\* the bytes RebuildBundle concatenates: the base, then each user certificate
Combined(p) == loc[p].mozData \o loc[p].certData

\* RebuildBundle: WriteFile(combined-bundle.pem.tmp)
RbWrite(p) ==
  /\ pc[p] = "rb_write"
  /\ UNCHANGED <<dirs, meta, metaTmp, moz, mozTmp, comb, userFile, userTmp>>
  /\ UNCHANGED <<lockVars, kills>>
  /\ \/ /\ NoFault
        /\ combTmp' = Full(Combined(p))
        /\ Goto(p, "rb_rename")
        /\ UNCHANGED hist
     \/ /\ Fault
        /\ combTmp' = PartialBundle(Combined(p))
        /\ RbFail(p, "write temp bundle")

\* RebuildBundle: Rename(tmp, combined-bundle.pem), Remove(tmp) on failure;
\* then the combined_bundle block of the record is recomputed
RbRename(p) ==
  /\ pc[p] = "rb_rename"
  /\ UNCHANGED <<dirs, meta, metaTmp, moz, mozTmp, userFile, userTmp>>
  /\ UNCHANGED <<lockVars, kills>>
  /\ \/ /\ Exists(combTmp)
        /\ NoFault
        /\ comb' = combTmp
        /\ combTmp' = NoBundle
        /\ Step(p, "u_write",
                [md[p] EXCEPT !.combined = CombinedInfo(Combined(p), loc[p].certData)],
                loc[p], uerr[p])
        /\ hist' = IF op[p].kind = "add"
                      THEN [hist EXCEPT !.rebuilt[p] = TRUE] ELSE hist
     \/ /\ \/ ~Exists(combTmp) /\ NoFault
           \/ Exists(combTmp) /\ Fault
        /\ comb' = comb
        /\ combTmp' = NoBundle
        /\ RbFail(p, "rename bundle")

\* ------------------------------------------------------------------ AddCert
\* a check that always answers yes
IsInitializedAlways == TRUE

\* Store.IsInitialized: Stat(metadata.json)
IsInitialized == Exists(meta)

StartAdd(p, n, c) ==
  /\ Begin(p, [NoOp EXCEPT !.kind = "add", !.name = n, !.cert = c], "add_begin", 1)
  /\ UNCHANGED <<fsVars, lockVars, envVars>>

\* AddCert called with any name, any certificate file and either force
StartAddWith(p, n, c, force) ==
  /\ Begin(p, [kind |-> "add", name |-> n, cert |-> c, force |-> force], "add_begin", 1)
  /\ UNCHANGED <<fsVars, lockVars, envVars>>

\* AddCert up to its first write: IsInitialized, the name check, the context
\* checks, ReadFile(certPath) and ValidateCert
AddBegin(p) ==
  /\ pc[p] = "add_begin"
  /\ UNCHANGED <<fsVars, lockVars, kills>>
  /\ \/ /\ ~IsInitialized
        /\ NoFault
        /\ Return(p, Err("add certificate", "not init"))
     \/ /\ IsInitialized
        /\ ~ValidName(op[p].name)
        /\ NoFault
        /\ Return(p, Err("add certificate", "invalid name"))
     \/ /\ IsInitialized
        /\ ValidName(op[p].name)
        /\ ctx[p] # "live"
        /\ NoFault
        /\ Return(p, Err("", "ctx"))
     \/ /\ IsInitialized
        /\ ValidName(op[p].name)
        /\ ctx[p] = "live"
        /\ Fault
        /\ Return(p, Err("read certificate", "io"))
     \/ /\ IsInitialized
        /\ ValidName(op[p].name)
        /\ ctx[p] = "live"
        /\ NoFault
        /\ LET e == ValidateCert(op[p].cert, op[p].force) IN
           IF e # "ok"
             THEN Return(p, Err(IF e = "invalid x509" THEN "parse certificate"
                                                      ELSE "validate certificate", e))
             ELSE Goto(p, "add_write") /\ UNCHANGED hist

\* AddCert: WriteFile(user/<name>.pem.tmp)
AddWrite(p) ==
  /\ pc[p] = "add_write"
  /\ UNCHANGED <<dirs, meta, metaTmp, moz, mozTmp, comb, combTmp, userFile>>
  /\ UNCHANGED <<lockVars, kills>>
  /\ \/ /\ NoFault
        /\ userTmp' = [userTmp EXCEPT ![op[p].name] = Full(op[p].cert)]
        /\ Goto(p, "add_rename")
        /\ UNCHANGED hist
     \/ /\ Fault
        /\ userTmp' = [userTmp EXCEPT ![op[p].name] = PartialCert]
        /\ Return(p, Err("write certificate", "io"))

\* AddCert: Rename(tmp, user/<name>.pem), Remove(tmp) on failure; then the
\* first UpdateMetadata call begins
AddRename(p) ==
  /\ pc[p] = "add_rename"
  /\ UNCHANGED <<dirs, meta, metaTmp, moz, mozTmp, comb, combTmp>>
  /\ UNCHANGED <<lockVars, kills>>
  /\ LET n == op[p].name IN
     \/ /\ Exists(userTmp[n])
        /\ NoFault
        /\ userFile' = [userFile EXCEPT ![n] = userTmp[n]]
        /\ userTmp' = [userTmp EXCEPT ![n] = NoCert]
        /\ Goto(p, "lock")
        /\ UNCHANGED hist
     \/ /\ \/ ~Exists(userTmp[n]) /\ NoFault
           \/ Exists(userTmp[n]) /\ Fault
        /\ userFile' = userFile
        /\ userTmp' = [userTmp EXCEPT ![n] = NoCert]
        /\ Return(p, Err("rename certificate", "io"))

\* AddCert: the first UpdateMetadata failed; Remove(user/<name>.pem), whose
\* own error is discarded, and return the update's error
AddRollback(p) ==
  /\ pc[p] = "add_rollback"
  /\ \/ NoFault /\ userFile' = [userFile EXCEPT ![op[p].name] = NoCert]
     \/ Fault /\ Exists(userFile[op[p].name]) /\ userFile' = userFile
  /\ Return(p, Err("", uerr[p]))
  /\ UNCHANGED <<dirs, meta, metaTmp, moz, mozTmp, comb, combTmp, userTmp>>
  /\ UNCHANGED <<lockVars, kills>>

\* --------------------------------------------------------------- RemoveCert
StartRemove(p, n) ==
  /\ Begin(p, [NoOp EXCEPT !.kind = "remove", !.name = n], "rm_begin", 1)
  /\ UNCHANGED <<fsVars, lockVars, envVars>>

\* RemoveCert up to its first UpdateMetadata: IsInitialized, context check
RmBegin(p) ==
  /\ pc[p] = "rm_begin"
  /\ UNCHANGED <<fsVars, lockVars, envVars>>
  /\ IF ~IsInitialized THEN Return(p, Err("remove certificate", "not init"))
     ELSE IF ctx[p] # "live" THEN Return(p, Err("", "ctx"))
     ELSE Goto(p, "lock") /\ UNCHANGED hist

\* RemoveCert: Remove(user/<name>.pem), whose error is discarded (the file
\* stays when the removal fails); then the rebuild
RmFile(p) ==
  /\ pc[p] = "rm_file"
  /\ \/ NoFault /\ userFile' = [userFile EXCEPT ![op[p].name] = NoCert]
     \/ Fault /\ Exists(userFile[op[p].name]) /\ userFile' = userFile
  /\ StepPh(p, "lock", 2, "ok")
  /\ UNCHANGED <<dirs, meta, metaTmp, moz, mozTmp, comb, combTmp, userTmp>>
  /\ UNCHANGED <<lockVars, kills>>

\* --------------------------------------------------------------------- Init
StartInit(p, force) ==
  /\ Begin(p, [NoOp EXCEPT !.kind = "init", !.force = force], "init_begin", 0)
  /\ UNCHANGED <<fsVars, lockVars, envVars>>

\* an Init that never looks at its context
InitBeginNoCtx(p) ==
  /\ pc[p] = "init_begin"
  /\ UNCHANGED <<fsVars, lockVars, envVars>>
  /\ IF ~op[p].force /\ Exists(meta) THEN Return(p, Err("", "already init"))
     ELSE Goto(p, "init_mkdir") /\ UNCHANGED hist

\* an Init that never looks for an existing metadata.json
InitBeginAny(p) ==
  /\ pc[p] = "init_begin"
  /\ UNCHANGED <<fsVars, lockVars, envVars>>
  /\ IF ctx[p] # "live" THEN Return(p, Err("", "ctx"))
     ELSE Goto(p, "init_mkdir") /\ UNCHANGED hist


\* Init: the AlreadyInitialized check and the context check
InitBegin(p) ==
  /\ pc[p] = "init_begin"
  /\ UNCHANGED <<fsVars, lockVars, envVars>>
  /\ IF ~op[p].force /\ IsInitialized THEN Return(p, Err("", "already init"))
     ELSE IF ctx[p] # "live" THEN Return(p, Err("", "ctx"))
     ELSE Goto(p, "init_mkdir") /\ UNCHANGED hist

\* an Init that saves the record right after the directories, before any
\* bundle is written
InitMkdirSaveFirst(p) ==
  /\ pc[p] = "init_mkdir"
  /\ UNCHANGED <<meta, metaTmp, moz, mozTmp, comb, combTmp, userFile, userTmp>>
  /\ UNCHANGED <<lockVars, kills>>
  /\ \/ /\ NoFault
        /\ dirs' = TRUE
        /\ Step(p, "u_write", [NewMetadata EXCEPT !.mozilla = EmbeddedInfo],
                loc[p], uerr[p])
        /\ UNCHANGED hist
     \/ /\ Fault
        /\ dirs' = dirs
        /\ Return(p, Err("create directory", "io"))


\* Init: createDirectories
InitMkdir(p) ==
  /\ pc[p] = "init_mkdir"
  /\ UNCHANGED <<meta, metaTmp, moz, mozTmp, comb, combTmp, userFile, userTmp>>
  /\ UNCHANGED <<lockVars, kills>>
  /\ \/ /\ NoFault
        /\ dirs' = TRUE
        /\ Goto(p, "init_writemoz")
        /\ UNCHANGED hist
     \/ /\ Fault
        /\ dirs' = dirs
        /\ Return(p, Err("create directory", "io"))

\* Init: WriteFile(mozilla bundle) in place, then the fresh record whose
\* mozilla_bundle block describes the embedded bundle
InitWriteMoz(p) ==
  /\ pc[p] = "init_writemoz"
  /\ UNCHANGED <<dirs, meta, metaTmp, mozTmp, comb, combTmp, userFile, userTmp>>
  /\ UNCHANGED <<lockVars, kills>>
  /\ \/ /\ NoFault
        /\ moz' = Full(EmbeddedBundle)
        /\ Step(p, "rb_readmoz", [NewMetadata EXCEPT !.mozilla = EmbeddedInfo],
                loc[p], uerr[p])
        /\ UNCHANGED hist
     \/ /\ Fault
        /\ moz' = PartialBundle(EmbeddedBundle)
        /\ Return(p, Err("write mozilla bundle", "io"))

\* ------------------------------------------------------- ResetMozillaBundle
StartReset(p) ==
  /\ Begin(p, [NoOp EXCEPT !.kind = "reset"], "reset_begin", 1)
  /\ UNCHANGED <<fsVars, lockVars, envVars>>

\* ResetMozillaBundle: IsInitialized, context check
ResetBegin(p) ==
  /\ pc[p] = "reset_begin"
  /\ UNCHANGED <<fsVars, lockVars, envVars>>
  /\ IF ~IsInitialized THEN Return(p, Err("reset mozilla bundle", "not init"))
     ELSE IF ctx[p] # "live" THEN Return(p, Err("", "ctx"))
     ELSE Goto(p, "reset_write") /\ UNCHANGED hist

\* ResetMozillaBundle: WriteFile(mozilla bundle .tmp)
ResetWrite(p) ==
  /\ pc[p] = "reset_write"
  /\ UNCHANGED <<dirs, meta, metaTmp, moz, comb, combTmp, userFile, userTmp>>
  /\ UNCHANGED <<lockVars, kills>>
  /\ \/ /\ NoFault
        /\ mozTmp' = Full(EmbeddedBundle)
        /\ Goto(p, "reset_rename")
        /\ UNCHANGED hist
     \/ /\ Fault
        /\ mozTmp' = PartialBundle(EmbeddedBundle)
        /\ Return(p, Err("write mozilla bundle temp file", "io"))

\* ResetMozillaBundle: Rename(tmp, mozilla bundle), Remove(tmp) on failure;
\* then UpdateMetadata begins
ResetRename(p) ==
  /\ pc[p] = "reset_rename"
  /\ UNCHANGED <<dirs, meta, metaTmp, comb, combTmp, userFile, userTmp>>
  /\ UNCHANGED <<lockVars, kills>>
  /\ \/ /\ Exists(mozTmp)
        /\ NoFault
        /\ moz' = mozTmp
        /\ mozTmp' = NoBundle
        /\ Goto(p, "lock")
        /\ UNCHANGED hist
     \/ /\ \/ ~Exists(mozTmp) /\ NoFault
           \/ Exists(mozTmp) /\ Fault
        /\ moz' = moz
        /\ mozTmp' = NoBundle
        /\ Return(p, Err("rename mozilla bundle", "io"))

\* ------------------------------------ ListCerts, GetMetadata, GetCertInfo
ReadKinds == {"list", "getmeta", "info"}

\* the Op of the error each read operation returns from its own checks
ReadOpName(k) ==
  CASE k = "list" -> "list certificates"
    [] k = "getmeta" -> "get metadata"
    [] OTHER -> "get certificate info"

StartRead(p, k, n) ==
  /\ Begin(p, [NoOp EXCEPT !.kind = k, !.name = n], "rd_begin", 0)
  /\ UNCHANGED <<fsVars, lockVars, envVars>>

\* the read operations' IsInitialized check
ReadBegin(p) ==
  /\ pc[p] = "rd_begin"
  /\ UNCHANGED <<fsVars, lockVars, envVars>>
  /\ IF ~IsInitialized THEN Return(p, Err(ReadOpName(op[p].kind), "not init"))
     ELSE Goto(p, "rd_read") /\ UNCHANGED hist

\* readMetadata without the lock, and what each operation returns from it
ReadOnly(p) ==
  /\ pc[p] = "rd_read"
  /\ UNCHANGED <<fsVars, lockVars, kills>>
  /\ \/ /\ meta.st = "none"
        /\ NoFault
        /\ Return(p, Err("", "read metadata"))
     \/ /\ meta.st = "partial"
        /\ NoFault
        /\ Return(p, Err("", "parse metadata"))
     \/ /\ meta.st = "full"
        /\ Fault
        /\ Return(p, Err("", "read metadata"))
     \/ /\ meta.st = "full"
        /\ NoFault
        /\ IF op[p].kind = "info" /\ ~HasName(meta.data, op[p].name)
             THEN Return(p, Err("get certificate info", "not found"))
             ELSE Return(p, Ok)

\* --------------------------------------------------------------- a crash
\* the process is killed: the kernel drops its flock, and a WriteFile it was
\* in the middle of leaves a truncated file
Kill(p) ==
  /\ pc[p] # "idle"
  /\ kills < MaxKills
  /\ kills' = kills + 1
  /\ held' = [held EXCEPT ![p] = 0]
  /\ Return(p, Err("", "killed"))
  /\ UNCHANGED <<dirs, meta, comb, userFile, lockIno, faults>>
  /\ \/ UNCHANGED <<metaTmp, combTmp, userTmp, mozTmp, moz>>
     \/ /\ pc[p] = "u_write"
        /\ metaTmp' = PartialMeta
        /\ UNCHANGED <<combTmp, userTmp, mozTmp, moz>>
     \/ /\ pc[p] = "rb_write"
        /\ combTmp' = PartialBundle(Combined(p))
        /\ UNCHANGED <<metaTmp, userTmp, mozTmp, moz>>
     \/ /\ pc[p] = "add_write"
        /\ userTmp' = [userTmp EXCEPT ![op[p].name] = PartialCert]
        /\ UNCHANGED <<metaTmp, combTmp, mozTmp, moz>>
     \/ /\ pc[p] = "reset_write"
        /\ mozTmp' = PartialBundle(EmbeddedBundle)
        /\ UNCHANGED <<metaTmp, combTmp, userTmp, moz>>
     \/ /\ pc[p] = "init_writemoz"
        /\ moz' = PartialBundle(EmbeddedBundle)
        /\ UNCHANGED <<metaTmp, combTmp, userTmp, mozTmp>>

\* ------------------------------------------------------- the clean command
\* runTempCleanup's Glob calls, in order: <base>/**/ (one level, as Glob has
\* no "**"), <base>/, <base>/certs/ and <base>/certs/bundles/, each with
\* *.tmp then *.lock; the files under certs/ are listed twice, the temp files
\* of certs/user are not listed
CleanPatterns ==
  <<"metadata.json.tmp", "metadata.json.lock", "metadata.json.tmp",
    "metadata.json.lock", "combined-bundle.pem.tmp", "mozilla-ca-bundle.pem.tmp">>

\* the file of that name exists
Found(f) ==
  CASE f = "metadata.json.tmp" -> Exists(metaTmp)
    [] f = "metadata.json.lock" -> lockIno # 0
    [] f = "combined-bundle.pem.tmp" -> Exists(combTmp)
    [] f = "mozilla-ca-bundle.pem.tmp" -> Exists(mozTmp)

StartClean(p) ==
  /\ Begin(p, [NoOp EXCEPT !.kind = "clean"], "cl_glob", 0)
  /\ UNCHANGED <<fsVars, lockVars, envVars>>

\* runTempCleanup collects the matches; with none it returns at once
CleanGlob(p) ==
  /\ pc[p] = "cl_glob"
  /\ UNCHANGED <<fsVars, lockVars, envVars>>
  /\ LET foundFiles == SelectSeq(CleanPatterns, Found) IN
     IF foundFiles = <<>>
       THEN Return(p, Ok)
       ELSE /\ Step(p, "cl_remove", md[p], [loc[p] EXCEPT !.entries = foundFiles], uerr[p])
            /\ UNCHANGED hist

\* runTempCleanup: os.Remove of the next match, a failure being a warning
\* only; it takes no lock
CleanRemove(p) ==
  /\ pc[p] = "cl_remove"
  /\ LET f == Head(loc[p].entries) IN
     /\ metaTmp' = IF f = "metadata.json.tmp" THEN NoMeta ELSE metaTmp
     /\ lockIno' = IF f = "metadata.json.lock" THEN 0 ELSE lockIno
     /\ combTmp' = IF f = "combined-bundle.pem.tmp" THEN NoBundle ELSE combTmp
     /\ mozTmp' = IF f = "mozilla-ca-bundle.pem.tmp" THEN NoBundle ELSE mozTmp
  /\ UNCHANGED <<dirs, meta, moz, comb, userFile, userTmp, held, envVars>>
  /\ IF Tail(loc[p].entries) = <<>>
       THEN Return(p, Ok)
       ELSE /\ Step(p, "cl_remove", md[p], [loc[p] EXCEPT !.entries = Tail(@)], uerr[p])
            /\ UNCHANGED hist


\* a caller invokes UpdateMetadata with the incrementing mutator
StartUpdate(p) ==
  /\ Begin(p, [NoOp EXCEPT !.kind = "incr"], "lock", 1)
  /\ UNCHANGED <<fsVars, lockVars, envVars>>

\* a caller invokes UpdateMetadata with RebuildBundle as the mutator
StartRebuild(p) ==
  /\ Begin(p, [NoOp EXCEPT !.kind = "rebuild"], "lock", 1)
  /\ UNCHANGED <<fsVars, lockVars, envVars>>

\* the holder of the lock stops for good inside UpdateMetadata (the process is
\* suspended, or the function it was given never returns): the flock stays
Hang(p) ==
  /\ pc[p] = "u_read"
  /\ held[p] # 0
  /\ pc' = [pc EXCEPT ![p] = "hung"]
  /\ UNCHANGED <<fsVars, lockVars, envVars, hist>>
  /\ UNCHANGED <<op, phase, md, loc, uerr, ctx, result, calls>>

\* ------------------------------------------------------------ specifications
\* no call is in flight
AllIdle == \A p \in Procs : pc[p] = "idle"

\* N processes calling UpdateMetadata on an initialized store
NextUpd ==
  \E p \in Procs :
    \/ StartUpdate(p)
    \/ Cancel(p)
    \/ LockFirst(p)
    \/ LockRetry(p)
    \/ LockGiveUp(p)
    \/ ReadMeta(p)
    \/ WriteMetaTmp(p)
    \/ RenameMeta(p)
    \/ Unlock(p)

SpecUpd == InitStore /\ [][NextUpd]_vars

\* the steps UpdateMetadata takes by itself once it is called
UpdStep(p) ==
  \/ LockFirst(p)
  \/ LockRetry(p)
  \/ LockGiveUp(p)
  \/ ReadMeta(p)
  \/ WriteMetaTmp(p)
  \/ RenameMeta(p)
  \/ Unlock(p)

\* N processes calling UpdateMetadata, any holder of the lock may stop for
\* good; every call that can take a step eventually takes one, while
\* cancellation is up to the caller and may never come
NextWait ==
  \E p \in Procs :
    \/ StartUpdate(p)
    \/ Cancel(p)
    \/ Hang(p)
    \/ UpdStep(p)

SpecWait == InitStore /\ [][NextWait]_vars /\ \A p \in Procs : WF_vars(UpdStep(p))

\* the steps of UpdateMetadata and of RebuildBundle
LockedStep(p) ==
  \/ LockFirst(p)
  \/ LockRetry(p)
  \/ LockGiveUp(p)
  \/ ReadMeta(p)
  \/ RbReadMoz(p)
  \/ RbReadDir(p)
  \/ RbReadFile(p)
  \/ RbWrite(p)
  \/ RbRename(p)
  \/ WriteMetaTmp(p)
  \/ RenameMeta(p)
  \/ Unlock(p)

AddStep(p) ==
  \/ AddBegin(p)
  \/ AddWrite(p)
  \/ AddRename(p)
  \/ AddRollback(p)

\* two processes adding and removing certificates on an initialized store,
\* with I/O errors and cancellation
NextStore ==
  \E p \in StoreProcs :
    \/ \E n \in Names : StartAdd(p, n, CertOf[p])
    \/ \E n \in Names : StartRemove(p, n)
    \/ Cancel(p)
    \/ AddStep(p)
    \/ RmBegin(p)
    \/ RmFile(p)
    \/ LockedStep(p)

SpecStore == InitStore /\ [][NextStore]_vars

\* two processes adding certificates, with I/O errors and cancellation
NextAdd ==
  \E p \in StoreProcs :
    \/ \E n \in Names : StartAdd(p, n, CertOf[p])
    \/ Cancel(p)
    \/ AddStep(p)
    \/ LockedStep(p)

SpecAdd == InitStore /\ [][NextAdd]_vars

\* the arguments AddCert is tried with: every name, and for each process its
\* own certificate, an expired one and a file that is no PEM
InputCerts(p) == {CertOf[p], "old", "junk"}

\* one process calling AddCert with any arguments next to one adding the
\* expired certificate with force, with I/O errors and cancellation
NextInput ==
  \E p \in StoreProcs :
    \/ /\ p = 1
       /\ \E n \in FileNames, c \in InputCerts(p), f \in BOOLEAN : StartAddWith(p, n, c, f)
    \/ /\ p # 1
       /\ \E n \in Names : StartAddWith(p, n, "old", TRUE)
    \/ Cancel(p)
    \/ AddStep(p)
    \/ LockedStep(p)

SpecInput == InitStore /\ [][NextInput]_vars

\* two processes adding certificates, either of which may be killed
NextCrash ==
  \E p \in StoreProcs :
    \/ \E n \in Names : StartAdd(p, n, CertOf[p])
    \/ Cancel(p)
    \/ AddStep(p)
    \/ LockedStep(p)
    \/ Kill(p)

SpecCrash == InitStore /\ [][NextCrash]_vars

\* every operation of the store, from two processes, with I/O errors and
\* cancellation
NextAll ==
  \E p \in StoreProcs :
    \/ \E f \in BOOLEAN : StartInit(p, f)
    \/ \E n \in Names : StartAdd(p, n, CertOf[p])
    \/ \E n \in Names : StartRemove(p, n)
    \/ StartReset(p)
    \/ StartUpdate(p)
    \/ Cancel(p)
    \/ InitBegin(p)
    \/ InitMkdir(p)
    \/ InitWriteMoz(p)
    \/ AddStep(p)
    \/ RmBegin(p)
    \/ RmFile(p)
    \/ ResetBegin(p)
    \/ ResetWrite(p)
    \/ ResetRename(p)
    \/ LockedStep(p)

SpecAll == InitStore /\ [][NextAll]_vars

\* the steps of Init on a store without user certificates: its own, then
\* RebuildBundle and writeMetadata, which it calls without the lock
InitStep(p) ==
  \/ InitBegin(p)
  \/ InitMkdir(p)
  \/ InitWriteMoz(p)
  \/ RbReadMoz(p)
  \/ RbReadDir(p)
  \/ RbWrite(p)
  \/ RbRename(p)
  \/ WriteMetaTmp(p)
  \/ RenameMeta(p)

\* processes calling Init, with or without force, on a base directory that
\* holds nothing yet, with I/O errors and cancellation
NextInit ==
  \E p \in Procs :
    \/ \E f \in BOOLEAN : StartInit(p, f)
    \/ Cancel(p)
    \/ InitStep(p)

SpecInit == InitEmpty /\ [][NextInit]_vars

\* processes calling ResetMozillaBundle on a store that holds a downloaded
\* bundle, with I/O errors and cancellation
NextReset ==
  \E p \in Procs :
    \/ StartReset(p)
    \/ Cancel(p)
    \/ ResetBegin(p)
    \/ ResetWrite(p)
    \/ ResetRename(p)
    \/ LockedStep(p)

SpecReset == InitUpdated /\ [][NextReset]_vars

\* the store of InitUpdated after a ResetMozillaBundle that replaced the
\* bundle file and then failed: the combined bundle and the record are stale.
\* An AddCert of the second name may have been killed, before its Rename (the
\* temp file is left) or after it (the certificate file has no entry), and
\* certs/user holds the directory sub.pem
InitStale ==
  /\ dirs = TRUE
  /\ meta = Full(UpdatedMd)
  /\ metaTmp = NoMeta
  /\ moz = Full(EmbeddedBundle) /\ mozTmp = NoBundle
  /\ comb = Full(DownloadedBundle \o <<CertOf[1]>>) /\ combTmp = NoBundle
  /\ \E f \in {NoCert, Full(CertOf[2])} :
       userFile = [n \in UserDirNames |->
                     CASE n = NameSeq[1] -> Full(CertOf[1])
                       [] n = NameSeq[2] -> f
                       [] n = SubDir -> Directory
                       [] OTHER -> NoCert]
  /\ \E t \in {NoCert, Full(CertOf[2])} :
       userTmp = [n \in UserDirNames |-> IF n = NameSeq[2] THEN t ELSE NoCert]
  /\ ProcInit

\* processes rebuilding the bundle of such a store, nothing else changing
\* the base bundle or the user certificates, with I/O errors and cancellation
NextRebuild ==
  \E p \in Procs :
    \/ StartRebuild(p)
    \/ Cancel(p)
    \/ LockedStep(p)

SpecRebuild == InitStale /\ [][NextRebuild]_vars

\* the same with a third process calling Init with force
NextResetInit ==
  \E p \in Procs :
    \/ p \in StoreProcs /\ StartReset(p)
    \/ p \notin StoreProcs /\ StartInit(p, TRUE)
    \/ Cancel(p)
    \/ InitBegin(p)
    \/ InitMkdir(p)
    \/ InitWriteMoz(p)
    \/ ResetBegin(p)
    \/ ResetWrite(p)
    \/ ResetRename(p)
    \/ LockedStep(p)

SpecResetInit == InitUpdated /\ [][NextResetInit]_vars


\* two processes calling UpdateMetadata, to increment or to rebuild the
\* bundle, on a store with one user certificate while a third runs the clean
\* command, with I/O errors and cancellation
NextClean ==
  \E p \in Procs :
    \/ p \in StoreProcs /\ StartUpdate(p)
    \/ p \in StoreProcs /\ StartRebuild(p)
    \/ p \notin StoreProcs /\ StartClean(p)
    \/ Cancel(p)
    \/ CleanGlob(p)
    \/ CleanRemove(p)
    \/ LockedStep(p)

SpecClean == InitUpdated /\ [][NextClean]_vars


\* UpdateMetadata when no other process is at work: the first try takes the
\* lock
SoloStep(p) ==
  \/ LockFirst(p)
  \/ ReadMeta(p)
  \/ RbReadMoz(p)
  \/ RbReadDir(p)
  \/ RbReadFile(p)
  \/ RbWrite(p)
  \/ RbRename(p)
  \/ WriteMetaTmp(p)
  \/ RenameMeta(p)
  \/ Unlock(p)

\* two AddCert calls, each with its own name, and a RemoveCert call, one after
\* the other in any order and none overlapping another, on an initialized
\* store, with I/O errors and cancellation; a certificate file may hold one
\* certificate, a chain of two, a private key or no PEM at all
NextSeq ==
  \E p \in Procs :
    \/ /\ AllIdle /\ p \in StoreProcs
       /\ \E c \in {CertOf[p], "chain", "key", "junk"} : StartAdd(p, NameSeq[p], c)
    \/ AllIdle /\ p \notin StoreProcs /\ \E n \in Names : StartRemove(p, n)
    \/ Cancel(p)
    \/ AddStep(p)
    \/ RmBegin(p)
    \/ RmFile(p)
    \/ SoloStep(p)

SpecSeq == InitStore /\ [][NextSeq]_vars

\* one process initializing a base directory that holds nothing yet while two
\* others call the other operations of the store on one certificate name,
\* with I/O errors and cancellation
NextFresh ==
  \E p \in Procs :
    \/ p \notin StoreProcs /\ StartInit(p, FALSE)
    \/ p \in StoreProcs /\ StartAdd(p, NameSeq[1], CertOf[p])
    \/ p \in StoreProcs /\ StartRemove(p, NameSeq[1])
    \/ p \in StoreProcs /\ StartReset(p)
    \/ p \in StoreProcs /\ \E k \in ReadKinds \ {"info"} : StartRead(p, k, "")
    \/ p \in StoreProcs /\ StartRead(p, "info", NameSeq[1])
    \/ Cancel(p)
    \/ InitBegin(p)
    \/ InitMkdir(p)
    \/ InitWriteMoz(p)
    \/ AddStep(p)
    \/ RmBegin(p)
    \/ RmFile(p)
    \/ ResetBegin(p)
    \/ ResetWrite(p)
    \/ ResetRename(p)
    \/ ReadBegin(p)
    \/ ReadOnly(p)
    \/ LockedStep(p)

SpecFresh == InitEmpty /\ [][NextFresh]_vars

\* ------------------------------------------------------------------ helpers
Holds(p) == held[p] # 0

TypeOK ==
  /\ \A p \in Procs : held[p] \in 0..(NProcs + 1)
  /\ faults \in 0..MaxFaults

\* p is between a successful Lock and its Unlock
Locked(p) ==
  /\ op[p].kind # "init"
  /\ pc[p] \in {"u_read", "rb_readmoz", "rb_readdir", "rb_readfile", "rb_write",
                "rb_rename", "u_write", "u_rename", "unlock"}

\* ------------------------------------------------------------------ claims
\* C1: no lost updates. When no UpdateMetadata call is in flight, the counter
\* in metadata.json is its initial value plus the number of calls that
\* returned success, whatever the interleaving of the callers' steps.
C1_NoLostUpdates ==
  AllIdle => /\ meta.st = "full"
             /\ meta.data.mozilla.count = CountCertificates(EmbeddedBundle) + hist.succ

\* every process called UpdateMetadata once and every call succeeded
C1_Witness ==
  /\ AllIdle
  /\ \A p \in Procs : calls[p] >= 1 /\ result[p] = Ok
  /\ hist.succ >= NProcs

\* C2: mutual exclusion of the file lock. At most one caller is between a
\* successful Lock and its Unlock; a Lock attempt made while another caller
\* holds the lock keeps polling and does not return success.
C2_MutualExclusion ==
  \A p, q \in Procs : (p # q /\ Locked(p)) => (~Locked(q) /\ held[q] = 0)

\* one caller holds the lock while another one polls for it
C2_Witness ==
  \E p, q \in Procs : p # q /\ Locked(p) /\ Holds(p) /\ pc[q] = "lockwait"

\* C3: every replacement of metadata.json is made by a process that holds the
\* metadata lock at that moment.
C3_WritesUnderLock ==
  [][\A p \in Procs :
       (pc[p] = "u_rename" /\ pc'[p] # "u_rename" /\ meta' # meta) => Holds(p)]_vars

\* C4: whenever no operation is in flight, also after one returned an error,
\* combined_bundle.sha256 in metadata.json is the digest of the bytes at the
\* combined-bundle path.
C4_DigestInvariant ==
  (AllIdle /\ Exists(meta)) =>
     /\ meta.st = "full"
     /\ meta.data.combined.sha = ComputeSHA256(comb.data)

Range(f) == {f[i] : i \in DOMAIN f}

\* C5: whenever no operation is in flight, combined_bundle.sources contains
\* "user" exactly when user_certs is non-empty, and always contains the tag of
\* the base bundle (stated for the runs in which every call succeeded: no I/O
\* error, no cancellation).
C5_SourceTags ==
  (AllIdle /\ meta.st = "full" /\ faults = 0) =>
     /\ "mozilla" \in Range(meta.data.combined.sources)
     /\ "user" \in Range(meta.data.combined.sources) <=> meta.data.userCerts # <<>>

\* C6: when AddCert returns an error other than the rebuild error, the
\* certificate files, metadata.json and the combined bundle are what they were
\* when it was called (no other call having run in between).
C6_AllOrNothing ==
  \A p \in StoreProcs :
    (/\ pc[p] = "idle"
     /\ op[p].kind = "add"
     /\ hist.alone[p]
     /\ result[p].err \notin {"none", "ok"}
     /\ result[p].op # "rebuild bundle after adding certificate")
    => Disk = hist.snap[p]

\* C7: when the first locked update of AddCert fails, AddCert returns an
\* error, and once no other call is in flight the file user/<name>.pem does
\* not exist unless a catalog entry claims it.
C7_Rollback ==
  \A p \in StoreProcs :
    (pc[p] = "idle" /\ op[p].kind = "add" /\ hist.updFailed[p]) =>
       /\ result[p].err \notin {"none", "ok"}
       /\ (\A q \in Procs \ {p} : pc[q] = "idle") =>
            (Exists(userFile[op[p].name]) => HasName(meta.data, op[p].name))

\* C8: whenever no operation is in flight, every entry of user_certs has a
\* path whose file exists under certs/user.
C8_EntriesHaveFiles ==
  (AllIdle /\ meta.st = "full") =>
     \A i \in 1..Len(meta.data.userCerts) : Exists(userFile[meta.data.userCerts[i].path])

\* the entry a call stamps with its own instant
Stamp(p) == <<p, calls[p]>>
HasStamp(m, n, t) ==
  \E i \in 1..Len(m.userCerts) : m.userCerts[i].name = n /\ m.userCerts[i].added = t

\* C9: an AddCert killed before its first locked save committed leaves no entry
\* of that call in metadata.json; one killed after that save and before the
\* rebuild replaced the bundle leaves its entry in place and the combined
\* bundle whole and as it was before the call.
C9_CrashAtomicity ==
  \A p \in StoreProcs :
    (pc[p] = "idle" /\ op[p].kind = "add" /\ result[p].err = "killed") =>
       /\ ~hist.committed[p] => ~HasStamp(meta.data, op[p].name, Stamp(p))
       /\ (hist.committed[p] /\ ~hist.rebuilt[p]) => comb.st = "full"
       /\ (hist.committed[p] /\ ~hist.rebuilt[p] /\ hist.alone[p]) =>
            /\ HasStamp(meta.data, op[p].name, Stamp(p))
            /\ comb = hist.snap[p].comb

\* an AddCert was killed between its catalog save and its rebuild
C9_Witness ==
  \E p \in StoreProcs :
    /\ pc[p] = "idle" /\ op[p].kind = "add" /\ result[p].err = "killed"
    /\ hist.committed[p] /\ ~hist.rebuilt[p] /\ hist.alone[p]
    /\ HasStamp(meta.data, op[p].name, Stamp(p))
    /\ Exists(userFile[op[p].name])

\* C10: two AddCert calls with different names (the only calls made on the
\* store so far), no I/O error and no lock timeout or cancellation: both
\* return success and user_certs has an entry for each name, whatever the
\* interleaving.
C10_DistinctNames ==
  \A p, q \in StoreProcs :
    (/\ p # q
     /\ pc[p] = "idle" /\ pc[q] = "idle"
     /\ calls[p] = 1 /\ calls[q] = 1
     /\ \A r \in Procs \ {p, q} : calls[r] = 0
     /\ op[p].kind = "add" /\ op[q].kind = "add"
     /\ op[p].name # op[q].name
     /\ faults = 0)
    => /\ result[p] = Ok /\ result[q] = Ok
       /\ HasName(meta.data, op[p].name) /\ HasName(meta.data, op[q].name)

\* the two calls overlapped and both have returned
C10_Witness ==
  \E p, q \in StoreProcs :
    /\ p # q
    /\ pc[p] = "idle" /\ pc[q] = "idle"
    /\ op[p].kind = "add" /\ op[q].kind = "add"
    /\ calls[p] = 1 /\ calls[q] = 1
    /\ op[p].name # op[q].name
    /\ ~hist.alone[p] /\ ~hist.alone[q]
    /\ faults = 0
    /\ result[p] = Ok /\ result[q] = Ok
    /\ Len(meta.data.userCerts) = 2

\* the entries of the record m that carry the name n
EntriesOf(m, n) == {i \in 1..Len(m.userCerts) : m.userCerts[i].name = n}

\* C11: two concurrent AddCert calls for the same name whose catalog updates
\* were both saved: once both have returned, user_certs holds exactly one
\* entry of that name, with the fingerprint of the call that took the
\* metadata lock second for its catalog update.
C11_LastWriterWins ==
  \A p, q \in StoreProcs :
    (/\ p # q
     /\ pc[p] = "idle" /\ pc[q] = "idle"
     /\ calls[p] = 1 /\ calls[q] = 1
     /\ \A r \in Procs \ {p, q} : calls[r] = 0
     /\ op[p].kind = "add" /\ op[q].kind = "add"
     /\ op[p].name = op[q].name
     /\ hist.committed[p] /\ hist.committed[q])
    => /\ meta.st = "full"
       /\ Cardinality(EntriesOf(meta.data, op[p].name)) = 1
       /\ \A i \in EntriesOf(meta.data, op[p].name) :
            meta.data.userCerts[i].fp = Fingerprint(CertOf[hist.lastUpsert])

\* both calls overlapped, both returned success, and the one that locked
\* first for its catalog update lost its entry
C11_Witness ==
  \E p, q \in StoreProcs :
    /\ p # q
    /\ pc[p] = "idle" /\ pc[q] = "idle"
    /\ calls[p] = 1 /\ calls[q] = 1
    /\ op[p].kind = "add" /\ op[q].kind = "add"
    /\ op[p].name = op[q].name
    /\ ~hist.alone[p] /\ ~hist.alone[q]
    /\ result[p] = Ok /\ result[q] = Ok
    /\ hist.lastUpsert = q
    /\ \A i \in EntriesOf(meta.data, op[p].name) :
         meta.data.userCerts[i].fp = Fingerprint(CertOf[q])

\* C12: no two entries of user_certs have the same name, whatever AddCert and
\* RemoveCert calls have run; and an AddCert of a name that already had an
\* entry, once its catalog update is saved, leaves exactly one entry of that
\* name, with the new certificate's fingerprint, and as many entries as before.
C12_UniqueUpsert ==
  /\ meta.st = "full" =>
       \A n \in Names : Cardinality(EntriesOf(meta.data, n)) <= 1
  /\ \A p \in StoreProcs :
       (/\ pc[p] = "idle" /\ op[p].kind = "add"
        /\ hist.alone[p] /\ hist.committed[p]
        /\ HasName(hist.snap[p].meta.data, op[p].name))
       => /\ Cardinality(EntriesOf(meta.data, op[p].name)) = 1
          /\ \A i \in EntriesOf(meta.data, op[p].name) :
               meta.data.userCerts[i].fp = Fingerprint(op[p].cert)
          /\ Len(meta.data.userCerts) = Len(hist.snap[p].meta.data.userCerts)

\* a name was added with one certificate and then again with another one
C12_Witness ==
  \E p \in StoreProcs :
    /\ pc[p] = "idle" /\ op[p].kind = "add" /\ result[p] = Ok
    /\ hist.alone[p]
    /\ \E i \in EntriesOf(hist.snap[p].meta.data, op[p].name) :
         hist.snap[p].meta.data.userCerts[i].fp # Fingerprint(op[p].cert)
    /\ \E i \in EntriesOf(meta.data, op[p].name) :
         meta.data.userCerts[i].fp = Fingerprint(op[p].cert)

\* C13: UpdateMetadata releases the lock on every exit path: a process that is
\* not between a successful Lock and the deferred Unlock holds no flock, after
\* success as after a load error, a mutator error or a save error, so the lock
\* is free for the next caller.
C13_UnlockOnExit ==
  \A p \in Procs : ~Locked(p) => held[p] = 0

\* an UpdateMetadata returned a save error and another process then obtained
\* the lock
C13_Witness ==
  \E p, q \in StoreProcs :
    /\ p # q
    /\ pc[p] = "idle"
    /\ result[p].err \in {"write temp metadata", "rename metadata"}
    /\ Locked(q) /\ Holds(q)

\* the positions of UpdateMetadata from Lock to the end of its mutator, and
\* its deferred Unlock
BeforeSave == {"lock", "lockwait", "u_read", "rb_readmoz", "rb_readdir",
               "rb_readfile", "rb_write", "rb_rename", "unlock"}

\* C14: when the function passed to UpdateMetadata returns an error, also
\* after it changed the record in memory, UpdateMetadata goes to its return
\* without saving: no step of the call touches metadata.json or its temp
\* file, writeMetadata is entered only after the function returned nil, and
\* the error handed to the caller is the function's error.
C14_MutatorError ==
  [][\A p \in Procs :
       (op[p].kind # "init" /\ pc'[p] # pc[p]) =>
          /\ pc[p] \in BeforeSave => (meta' = meta /\ metaTmp' = metaTmp)
          /\ pc'[p] = "u_write" => uerr'[p] = "ok"
          /\ (pc[p] \in BeforeSave \ {"unlock"} /\ pc'[p] = "unlock") =>
               uerr'[p] # "ok"
          /\ (pc[p] = "unlock" /\ uerr[p] # "ok") =>
               /\ pc'[p] = "idle" => result'[p].err = uerr[p]
               /\ pc'[p] # "idle" => (pc'[p] = "add_rollback" /\ uerr'[p] = uerr[p])]_vars

\* the errors RebuildBundle returns after its context check
RebuildErrs == {"read mozilla bundle", "read user certs directory",
                "read user certificate", "write temp bundle", "rename bundle"}

\* ResetMozillaBundle's function set mozilla_bundle in memory and then failed
\* in the rebuild: the record on disk still has the block an earlier update
\* had written
C14_Witness ==
  \E p \in StoreProcs :
    /\ pc[p] = "idle" /\ op[p].kind = "reset"
    /\ result[p].err \in RebuildErrs
    /\ hist.alone[p]
    /\ meta.st = "full"
    /\ meta.data.mozilla # EmbeddedInfo

\* the positions of FileLock.Lock
LockPos == {"lock", "lockwait"}

C16_LockOutcome ==
  [][\A p \in Procs :
       (pc[p] \in LockPos /\ pc'[p] \notin LockPos) =>
          \/ /\ pc'[p] = "u_read"
             /\ held'[p] # 0
             /\ \A q \in Procs \ {p} : held[q] # held'[p]
          \/ /\ pc'[p] = "idle"
             /\ held'[p] = 0
             /\ \/ ctx[p] = "deadline" /\ result'[p].err = "lock deadline"
                \/ ctx[p] = "cancelled" /\ result'[p].err = "lock cancelled"]_vars

\* behind one holder, one waiter was ended by its deadline and another one by
\* cancellation
C16_Witness ==
  \E p, q, r \in Procs :
    /\ Holds(r) /\ pc[r] # "idle"
    /\ pc[p] = "idle" /\ result[p].err = "lock deadline"
    /\ pc[q] = "idle" /\ result[q].err = "lock cancelled"

\* p's writeMetadata returns nil in this step
SaveOk(p) ==
  /\ pc[p] = "u_rename"
  /\ IF op[p].kind = "init"
       THEN pc'[p] = "idle" /\ result'[p].err = "ok"
       ELSE pc'[p] = "unlock" /\ uerr'[p] = "ok"

\* C17: metadata.json is at every instant a complete document, the previous
\* one or the new one, never a truncated one, also after a failed or
\* interrupted writeMetadata; and a successful save leaves no
\* metadata.json.tmp behind.
C17_AtomicSave ==
  [][/\ meta' # meta => meta'.st = "full"
     /\ \A p \in Procs : SaveOk(p) => metaTmp' = NoMeta]_vars

\* the name has a path separator or a parent-directory segment in it
UnsafeName(n) ==
  LET ch == NameChars[n] IN
  \E i \in 1..Len(ch) :
    \/ ch[i] \in {"/", "\\"}
    \/ i < Len(ch) /\ ch[i] = "." /\ ch[i + 1] = "."

\* C18: AddCert with a name that contains "/", "\\" or ".." returns an error
\* at its name check: the call creates and modifies no file, temp files
\* included, and never gets to a write.
C18_NameCheckFirst ==
  [][\A p \in StoreProcs :
       (/\ pc[p] = "add_begin" /\ pc'[p] # "add_begin"
        /\ UnsafeName(op[p].name))
       => /\ pc'[p] = "idle"
          /\ result'[p].err \notin {"ok", "none"}
          /\ IsInitialized => result'[p] = Err("add certificate", "invalid name")
          /\ UNCHANGED fsVars]_vars

\* AddCert was called with each kind of bad name and refused every time
\* while the other process added its certificate
C18_Witness ==
  /\ pc[1] = "idle" /\ op[1].kind = "add" /\ op[1].name = "x..y"
  /\ result[1] = Err("add certificate", "invalid name")
  /\ \A n \in BadNames : userFile[n] = NoCert /\ userTmp[n] = NoCert
  /\ pc[2] = "idle" /\ result[2] = Ok

\* the certificate file given to the call is a well-formed expired one
ExpiredCert(p) == CertFile[op[p].cert] = [GoodCert EXCEPT !.expired = TRUE]

\* C19: AddCert with an expired certificate and force = false fails at the
\* validation with the Expired error, and creates or modifies no file, so
\* nothing under certs/user and no catalog entry; with force = true the same
\* certificate passes the validation, and once its catalog update is saved
\* the file and the entry of that name are that certificate's.
C19_Expired ==
  /\ [][\A p \in StoreProcs :
          (/\ pc[p] = "add_begin" /\ pc'[p] # "add_begin"
           /\ IsInitialized /\ ValidName(op[p].name)
           /\ ExpiredCert(p))
          => IF op[p].force
               THEN (ctx[p] = "live" /\ faults' = faults) => pc'[p] = "add_write"
               ELSE /\ pc'[p] = "idle"
                    /\ UNCHANGED fsVars
                    /\ (ctx[p] = "live" /\ faults' = faults) =>
                         result'[p] = Err("validate certificate", "expired")]_vars
  /\ [](\A p \in StoreProcs :
          (/\ pc[p] = "idle" /\ op[p].kind = "add" /\ op[p].force
           /\ ExpiredCert(p) /\ hist.alone[p] /\ hist.committed[p])
          => /\ userFile[op[p].name] = Full(op[p].cert)
             /\ \A i \in EntriesOf(meta.data, op[p].name) :
                  meta.data.userCerts[i].fp = Fingerprint(op[p].cert))

\* an expired certificate was refused without force and nothing was written
\* under its name, and another call added the same certificate with force
C19_Witness ==
  /\ pc[1] = "idle" /\ op[1].kind = "add" /\ ~op[1].force
  /\ op[1].cert = "old" /\ op[1].name = "a"
  /\ result[1] = Err("validate certificate", "expired")
  /\ userFile["a"] = NoCert /\ userTmp["a"] = NoCert
  /\ ~HasName(meta.data, "a")
  /\ pc[2] = "idle" /\ op[2].kind = "add" /\ op[2].force
  /\ op[2].cert = "old" /\ op[2].name = "b"
  /\ result[2] = Ok
  /\ userFile["b"] = Full("old")
  /\ \E i \in EntriesOf(meta.data, "b") :
       meta.data.userCerts[i].fp = Fingerprint("old")

\* the first step of every operation except Init
BeginPos == {"add_begin", "rm_begin", "reset_begin", "rd_begin"}

\* the Op each operation puts in its NotInitialized error
NotInitOp(o) ==
  CASE o.kind = "add" -> "add certificate"
    [] o.kind = "remove" -> "remove certificate"
    [] o.kind = "reset" -> "reset mozilla bundle"
    [] OTHER -> ReadOpName(o.kind)

\* C20: while metadata.json does not exist, AddCert, RemoveCert,
\* ResetMozillaBundle, ListCerts, GetCertInfo and GetMetadata return the
\* NotInitialized error from their first step, and that step creates or
\* modifies no file of the store.
C20_FailFast ==
  [][\A p \in Procs :
       (/\ pc[p] \in BeginPos /\ pc'[p] # pc[p]
        /\ meta.st = "none")
       => /\ pc'[p] = "idle"
          /\ result'[p] = Err(NotInitOp(op[p]), "not init")
          /\ UNCHANGED fsVars]_vars

\* RemoveCert was refused on a store whose Init failed halfway, GetCertInfo
\* on the same store too, and nothing of the store changed
C20_Witness ==
  /\ meta.st = "none" /\ dirs
  /\ \E p, q \in Procs :
       /\ pc[p] = "idle" /\ op[p].kind = "remove"
       /\ result[p] = Err("remove certificate", "not init")
       /\ pc[q] = "idle" /\ op[q].kind = "info"
       /\ result[q] = Err("get certificate info", "not init")
  /\ \A n \in FileNames : userFile[n] = NoCert /\ userTmp[n] = NoCert
  /\ comb = NoBundle /\ combTmp = NoBundle /\ metaTmp = NoMeta

\* C21: Init without force on a store whose metadata.json exists returns
\* AlreadyInitialized from its first step, and that step leaves metadata.json,
\* both bundle files and every user certificate file as they were.
C21_AlreadyInit ==
  [][\A p \in Procs :
       (/\ pc[p] = "init_begin" /\ pc'[p] # pc[p]
        /\ ~op[p].force /\ meta.st # "none")
       => /\ pc'[p] = "idle"
          /\ result'[p] = Err("", "already init")
          /\ UNCHANGED fsVars]_vars

\* Init without force was refused on the store a first Init left, and the
\* store is still as that Init left it
C21_Witness ==
  \E p \in Procs :
    /\ pc[p] = "idle" /\ op[p].kind = "init" /\ ~op[p].force
    /\ result[p] = Err("", "already init")
    /\ meta = Full([NewMetadata EXCEPT !.mozilla = EmbeddedInfo,
                                       !.combined = CombinedInfo(EmbeddedBundle, <<>>)])
    /\ moz = Full(EmbeddedBundle) /\ comb = Full(EmbeddedBundle)
    /\ \A n \in FileNames : userFile[n] = NoCert

\* the call of p was an Init that ran with no other call beside it and met no
\* I/O error and no cancellation
InitRanClean(p) ==
  /\ pc[p] = "idle" /\ op[p].kind = "init" /\ result[p] # NoResult
  /\ hist.alone[p] /\ hist.f0[p] = faults

\* C22: Init whose context is already done returns an error from its first
\* step, before any directory or file is created or changed (the context's
\* error when it gets as far as the context check), so the store stays as it
\* was; and an Init that then runs on its own with a live context and no I/O
\* error succeeds, unless it is without force and the store is initialized.
C22_CancelledInit ==
  /\ [][\A p \in Procs :
          (pc[p] = "init_begin" /\ pc'[p] # pc[p] /\ ctx[p] # "live")
          => /\ pc'[p] = "idle"
             /\ result'[p].err \notin {"ok", "none"}
             /\ (op[p].force \/ meta.st = "none") => result'[p] = Err("", "ctx")
             /\ UNCHANGED fsVars]_vars
  /\ [](\A p \in Procs :
          InitRanClean(p)
          => \/ result[p] = Ok /\ meta.st = "full"
             \/ ~op[p].force /\ result[p] = Err("", "already init"))

\* an Init with a cancelled context left the root empty and returned the
\* context's error, and the next Init succeeded
C22_Witness ==
  \E p, q \in Procs :
    /\ pc[p] = "idle" /\ op[p].kind = "init" /\ result[p] = Err("", "ctx")
    /\ InitRanClean(q) /\ ~op[q].force /\ result[q] = Ok
    /\ faults = 1
    /\ \A r \in Procs \ {p, q} : calls[r] = 0

\* the call of p was an Init that ran with no other call beside it and
\* returned success
InitSucceeded(p) ==
  /\ pc[p] = "idle" /\ op[p].kind = "init" /\ result[p] = Ok
  /\ hist.alone[p]

\* what Init leaves in metadata.json besides the source tags: the combined
\* bundle's count is the base bundle's, and there are no user certificates
InitCounts ==
  /\ meta.st = "full"
  /\ meta.data.combined.count = CountCertificates(EmbeddedBundle)
  /\ meta.data.combined.count = meta.data.mozilla.count
  /\ meta.data.userCerts = <<>>

\* C23 as stated: after a successful Init on an empty store root the source
\* tags of the combined bundle are ["base"], its certificate count is the base
\* bundle's, and user_certificates is empty.
C23_InitRecordBase ==
  \A p \in Procs :
    InitSucceeded(p) => InitCounts /\ meta.data.combined.sources = <<"base">>

\* C23 amended: the same with the tag the code writes for the base bundle,
\* "mozilla".
C23_InitRecord ==
  \A p \in Procs :
    InitSucceeded(p) => InitCounts /\ meta.data.combined.sources = <<"mozilla">>

\* the only call so far was an Init on the empty root, and it succeeded
C23_Witness ==
  \E p \in Procs :
    /\ InitSucceeded(p) /\ ~op[p].force
    /\ \A q \in Procs \ {p} : calls[q] = 0
    /\ faults = 0
    /\ comb = Full(EmbeddedBundle)

\* every call made so far has returned success
AllSucceeded ==
  /\ AllIdle
  /\ \A p \in Procs : calls[p] > 0 => result[p] = Ok

\* C24: after any sequence of successful, non-overlapping AddCert and
\* RemoveCert calls on a freshly initialized store, the certificate count of
\* the combined bundle is the base bundle's count plus the number of entries
\* in user_certificates.
C24_CountTracksCatalog ==
  AllSucceeded =>
    /\ meta.st = "full"
    /\ meta.data.combined.count =
         CountCertificates(EmbeddedBundle) + Len(meta.data.userCerts)

\* p is in a RemoveCert, before the removal of the file, and the name has no
\* entry
RemovingAbsent(p) ==
  /\ pc[p] \notin {"idle", "rm_file"} /\ op[p].kind = "remove" /\ phase[p] = 1
  /\ meta.st = "full" /\ EntriesOf(meta.data, op[p].name) = {}

\* C25: RemoveCert of a name that has no entry changes nothing: each of its
\* steps leaves metadata.json, the files under certs/user and the combined
\* bundle (and every temp file) as they were, and it returns an error, which
\* is NotFound when no I/O error or cancellation came in between.
C25_RemoveAbsent ==
  [][\A p \in Procs :
       (RemovingAbsent(p) /\ pc'[p] # pc[p])
       => /\ UNCHANGED fsVars
          /\ pc'[p] = "idle" =>
               /\ result'[p].err \notin {"ok", "none"}
               /\ faults' = 0 => result'[p] = Err("", "not found")]_vars

\* RemoveCert of a name without an entry returned NotFound next to another
\* certificate, whose entry and file are still there
C25_Witness ==
  \E p \in Procs :
    /\ pc[p] = "idle" /\ op[p].kind = "remove" /\ op[p].name = "b"
    /\ result[p] = Err("", "not found")
    /\ meta.st = "full" /\ EntriesOf(meta.data, "a") # {}
    /\ Exists(userFile["a"])
    /\ comb.st = "full" /\ Len(comb.data) = Len(EmbeddedBundle) + 1

\* the mozilla_bundle block of the embedded bundle
ResetInfo ==
  [NullInfo EXCEPT !.sha = ComputeSHA256(EmbeddedBundle),
                   !.count = CountCertificates(EmbeddedBundle),
                   !.source = "embedded"]

\* the record has both blocks reset and nothing else changed
BothReset ==
  /\ meta.data.mozilla = ResetInfo
  /\ meta.data.combined # UpdatedMd.combined
  /\ meta.data = [UpdatedMd EXCEPT !.mozilla = meta.data.mozilla,
                                   !.combined = meta.data.combined]

\* some, or no, ResetMozillaBundle call has returned success
SomeResetOk == \E p \in Procs : op[p].kind = "reset" /\ result[p] = Ok

\* C26: ResetMozillaBundle changes the mozilla_bundle and combined_bundle
\* blocks of metadata.json in one save or not at all: a record that still has
\* the catalog (so is not a fresh one of Init) is either the previous one or
\* one with both blocks changed; while every ResetMozillaBundle so far has
\* failed, both blocks keep their previous values; and once one has succeeded
\* (and no Init was called) mozilla_bundle holds the embedded bundle's digest
\* and count, source "embedded" and an empty version.
C26_ResetAtomic ==
  /\ meta.data.userCerts # <<>> => (meta.data = UpdatedMd \/ BothReset)
  /\ (AllIdle /\ ~SomeResetOk) => ~BothReset
  /\ (AllIdle /\ SomeResetOk /\ \A p \in Procs : op[p].kind # "init") => BothReset

\* the AddCert of p saved its catalog entry, then failed, with no other call
\* beside it
AddFailedAfterCommit(p) ==
  /\ pc[p] = "idle" /\ op[p].kind = "add"
  /\ hist.committed[p] /\ hist.alone[p]
  /\ result[p] # Ok

\* C27: when AddCert's second locked update (the rebuild) fails after the
\* catalog update was saved, AddCert returns an error labelled as a rebuild
\* failure, the catalog entry and the file user/<name>.pem remain, and the
\* combined bundle on disk is still the complete bundle from before the call.
C27_RebuildFailure ==
  \A p \in StoreProcs :
    AddFailedAfterCommit(p) =>
      /\ result[p].op = "rebuild bundle after adding certificate"
      /\ \E i \in EntriesOf(meta.data, op[p].name) :
           meta.data.userCerts[i].fp = Fingerprint(op[p].cert)
      /\ userFile[op[p].name] = Full(op[p].cert)
      /\ comb = hist.snap[p].comb

\* some rebuild has returned success
Rebuilt == \E q \in Procs : pc[q] = "idle" /\ op[q].kind = "rebuild" /\ result[q] = Ok

\* C28: RebuildBundle is idempotent: once a rebuild has succeeded, and the
\* base bundle and the user certificates stay as they are, a further rebuild
\* replaces the combined bundle only by the same bytes and records the same
\* sha256, certificate count and sources.
C28_Idempotent ==
  [][Rebuilt => /\ comb' = comb
                /\ meta'.st = "full" => meta'.data.combined = meta.data.combined]_vars

\* two rebuilds in a row succeeded, and the stale bundle was replaced
C28_Witness ==
  /\ AllIdle
  /\ \E p, q \in Procs :
       /\ p # q
       /\ op[p].kind = "rebuild" /\ result[p] = Ok
       /\ op[q].kind = "rebuild" /\ result[q] = Ok
  /\ comb = Full(EmbeddedBundle \o <<CertOf[1]>>)
  /\ meta.data.combined.sha = ComputeSHA256(comb.data)


\* C29: RebuildBundle entered with a context that is already done returns the
\* context's error at once: it writes neither the temp file nor the combined
\* bundle (no file changes at all), and the combined_bundle fields of the
\* record it was given stay as they were.
C29_CancelledRebuild ==
  [][\A p \in Procs :
       (pc[p] = "rb_readmoz" /\ pc'[p] # pc[p] /\ ctx[p] # "live")
       => /\ UNCHANGED fsVars
          /\ md'[p].combined = md[p].combined
          /\ \/ pc'[p] = "unlock" /\ uerr'[p] = "ctx"
             \/ pc'[p] = "idle" /\ result'[p] = Err("", "ctx")]_vars

\* a rebuild called under UpdateMetadata found its context done before it
\* read anything, and holds the lock with the stale bundle still in place
C29_Witness ==
  \E p \in Procs :
    /\ pc[p] = "unlock" /\ op[p].kind = "rebuild" /\ uerr[p] = "ctx"
    /\ loc[p].mozData = <<>>
    /\ md[p].combined = UpdatedMd.combined
    /\ comb = Full(DownloadedBundle \o <<CertOf[1]>>) /\ combTmp = NoBundle


\* the raw bytes of the regular *.pem files of certs/user, in listing order
UserPemBytes ==
  LET present == SelectSeq(NameSeq, LAMBDA n : userFile[n].st \in {"full", "partial"})
  IN [i \in 1..Len(present) |-> userFile[present[i]].data]

\* C30: after a successful RebuildBundle the combined bundle is the base
\* bundle's bytes followed by the bytes of every regular file of certs/user
\* whose name ends in .pem, in listing order, directories and other files
\* (the *.pem.tmp files among them) left out, and combined_bundle.sha256 is
\* the digest of these bytes.
C30_RebuildContent ==
  Rebuilt =>
    /\ comb = Full(moz.data \o UserPemBytes)
    /\ meta.data.combined.sha = ComputeSHA256(moz.data \o UserPemBytes)

\* a rebuild succeeded in a store with two certificate files, a left-over
\* temp file and a directory in certs/user
C30_Witness ==
  /\ Rebuilt
  /\ userFile[NameSeq[2]] = Full(CertOf[2])
  /\ userTmp[NameSeq[2]] = Full(CertOf[2])
  /\ userFile[SubDir] = Directory
  /\ comb = Full(EmbeddedBundle \o <<CertOf[1], CertOf[2]>>)

\* the file holds one PEM block, of type CERTIFICATE, and nothing after it
OneCertBlock(c) ==
  CertFile[c].pem /\ CertFile[c].type = "CERTIFICATE" /\ CertFile[c].blocks = 1

\* C31: the validator accepts only a file that is exactly one PEM block of
\* type CERTIFICATE: AddCert gets past ValidateCert only with such a file,
\* and a call with any other file (further blocks after a valid first one, a
\* block of another type, nothing that decodes) that was not ended by a
\* cancellation or a read error returns the format error.
C31_ExactlyOneBlock ==
  \A p \in StoreProcs :
    op[p].kind = "add" =>
      /\ pc[p] = "add_write" => OneCertBlock(op[p].cert)
      /\ (pc[p] = "idle" /\ ~OneCertBlock(op[p].cert)
          /\ result[p].err \notin {"ctx", "io"})
         => result[p].err \in {"invalid pem", "invalid block type"}


\* C32: when no call is in flight after two processes ran AddCert with the
\* same name and different certificates, the fingerprint of the catalog entry
\* of that name is the fingerprint of the certificate in user/<name>.pem.
C32_CatalogMatchesFile ==
  \A p, q \in StoreProcs :
    (/\ AllIdle /\ p # q
     /\ op[p].kind = "add" /\ op[q].kind = "add"
     /\ op[p].name = op[q].name /\ op[p].cert # op[q].cert)
    => \A i \in EntriesOf(meta.data, op[p].name) :
         /\ userFile[op[p].name].st = "full"
         /\ meta.data.userCerts[i].fp = Fingerprint(userFile[op[p].name].data)


\* the fingerprints of the user certificates in the combined bundle, and
\* those of the entries of user_certs
BundleCerts == {Fingerprint(x) : x \in Range(comb.data) \ Range(moz.data)}
CatalogCerts == {meta.data.userCerts[i].fp : i \in 1..Len(meta.data.userCerts)}

\* C33: when no call is in flight after any interleaving of AddCert,
\* RemoveCert and Init calls that met no I/O error and no cancellation, the
\* user certificates in the combined bundle are those of the catalog: none is
\* in the bundle without an entry, and none has an entry and is not in the
\* bundle.
C33_BundleMatchesCatalog ==
  (/\ AllIdle
   /\ faults = 0
   /\ \A p \in Procs : op[p].kind \in {"none", "add", "remove", "init"})
  => BundleCerts = CatalogCerts


\* C34: with AddCert calls of the same name running side by side,
\* user/<name>.pem never holds a truncated file, and a caller whose
\* certificate is in that file when its call has returned did not return a
\* write or rename error.
C34_PublishedWhole ==
  \A n \in Names :
    /\ userFile[n].st \in {"none", "full"}
    /\ \A p \in StoreProcs :
         (/\ pc[p] = "idle" /\ op[p].kind = "add" /\ op[p].name = n
          /\ userFile[n] = Full(op[p].cert))
         => result[p].op \notin {"write certificate", "rename certificate"}


\* C35: the clean command, run at any moment beside UpdateMetadata calls of
\* other processes, does not break the lock or a save: at most one process is
\* between its successful Lock and its Unlock, and, no I/O error or
\* cancellation having occurred, every UpdateMetadata call that has returned
\* returned success and the counter in metadata.json shows every increment.
C35_CleanupSafe ==
  /\ \A p, q \in Procs : (p # q /\ Locked(p)) => ~Locked(q)
  /\ faults = 0 =>
       /\ \A p \in StoreProcs :
            (pc[p] = "idle" /\ result[p] # NoResult) => result[p] = Ok
       /\ AllIdle =>
            meta.data.mozilla.count = UpdatedMd.mozilla.count + hist.succ


\* C36: whenever no operation is in flight, also after a ResetMozillaBundle
\* that failed at any step, mozilla_bundle.sha256 in metadata.json is the
\* digest of the bytes at the base-bundle path.
C36_BaseDigest ==
  (AllIdle /\ meta.st = "full") => meta.data.mozilla.sha = ComputeSHA256(moz.data)


\* the only call so far besides q's was a non-force Init of p that failed
FailedFirstInit(p, q) ==
  /\ p # q
  /\ pc[p] = "idle" /\ op[p].kind = "init" /\ ~op[p].force
  /\ result[p].err \notin {"ok", "none"}
  /\ \A r \in Procs \ {p, q} : calls[r] = 0

\* C37: Init publishes metadata.json last. Whenever IsInitialized() is true
\* the directories, the base bundle and the combined bundle exist; a
\* non-force Init on an empty store root that fails leaves the store
\* uninitialized; and a retry that meets no I/O error and no cancellation
\* succeeds.
C37_PublishedLast ==
  /\ IsInitialized => (dirs /\ Exists(moz) /\ Exists(comb))
  /\ \A p, q \in Procs :
       /\ (FailedFirstInit(p, q) /\ calls[q] = 0) => ~IsInitialized
       /\ (FailedFirstInit(p, q) /\ InitRanClean(q) /\ ~op[q].force)
          => /\ result[q] = Ok
             /\ meta.st = "full" /\ moz = Full(EmbeddedBundle) /\ comb = Full(EmbeddedBundle)

\* an Init failed on an I/O error of one of its writes, the store stayed
\* uninitialized until the retry, and the retry initialized it
C37_Witness ==
  \E p, q \in Procs :
    /\ FailedFirstInit(p, q)
    /\ result[p].err \notin {"ctx", "already init"}
    /\ InitRanClean(q) /\ ~op[q].force /\ result[q] = Ok
    /\ IsInitialized /\ Exists(moz) /\ Exists(comb)


\* C38: once the store is initialized, also while a force Init or a
\* ResetMozillaBundle runs or after one failed, the base-bundle path holds
\* the complete bytes of a base bundle, and the base a RebuildBundle has read
\* is a complete one.
C38_BaseComplete ==
  IsInitialized =>
    /\ moz.st = "full" /\ moz.data \in {EmbeddedBundle, DownloadedBundle}
    /\ \A p \in Procs :
         pc[p] \in {"rb_readdir", "rb_readfile", "rb_write", "rb_rename"}
         => loc[p].mozData \in {EmbeddedBundle, DownloadedBundle}


\* ------------------------------------------------------------ repeated calls
\* a caller whose UpdateMetadata(RebuildBundle) call has returned makes the
\* same call again; the calls after the first MaxCalls count as one, so a
\* process may call for ever
CallAgain(p) ==
  /\ pc[p] = "idle"
  /\ calls[p] >= MaxCalls
  /\ op[p].kind = "rebuild"
  /\ hist' = HistBegin(p, op[p])
  /\ calls' = [calls EXCEPT ![p] = MaxCalls + 1]
  /\ pc' = [pc EXCEPT ![p] = "lock"]
  /\ phase' = [phase EXCEPT ![p] = 1]
  /\ result' = [result EXCEPT ![p] = NoResult]
  /\ UNCHANGED <<op, md, loc, uerr, ctx>>
  /\ UNCHANGED <<fsVars, lockVars, envVars>>

\* the steps a call takes by itself when no context is ever done: the first
\* try, the polls, and the work under the lock up to the deferred Unlock
PollStep(p) ==
  \/ SoloStep(p)
  \/ LockRetry(p)

\* N processes calling UpdateMetadata again and again, no context cancelled
NextRepeat ==
  \E p \in Procs :
    \/ StartRebuild(p)
    \/ CallAgain(p)
    \/ PollStep(p)

\* every call that can take a step eventually takes one: a holder of the lock
\* releases it after finitely many steps, and a poll that stays possible is
\* eventually made
SpecRepeat ==
  InitUpdated /\ [][NextRepeat]_vars /\ \A p \in Procs : WF_vars(PollStep(p))

\* a process has called UpdateMetadata more than MaxCalls times
Repeats(p) == calls[p] > MaxCalls

\* C39 as stated: under weak fairness of every process's steps, with no
\* context ever cancelled or timed out and every holder releasing the lock,
\* each process that starts a Lock attempt eventually acquires the lock
C39_NoStarvation ==
  \A p \in Procs : (pc[p] \in LockPos) ~> Holds(p)

\* C39 as amended: a process that starts a Lock attempt eventually acquires
\* the lock provided its own polls are strongly fair, that is, a process
\* whose poll would find the lock free again and again eventually polls at
\* such a moment
C39_NoStarvationStrong ==
  \A p \in Procs :
    SF_vars(LockRetry(p)) => ((pc[p] \in LockPos) ~> Holds(p))

\* a process that calls again and again has the lock while another such
\* process is polling for it
C39_Witness ==
  \E p, q \in Procs :
    /\ p # q
    /\ Repeats(p) /\ Repeats(q)
    /\ Holds(p) /\ pc[p] = "u_read"
    /\ pc[q] = "lockwait"

====
